---- MODULE Spec2Model ----
(***************************************************************************)
(* Parsonage tenant / guest-room management (Google Apps Script).          *)
(* The sheets are the state: Guest Rooms, Guest Bookings, Budget, Tenants  *)
(* and Pricing Rules.  Every menu handler and trigger handler is one       *)
(* action.  Dates are counted in ticks, TicksPerDay ticks to a calendar    *)
(* day, tick 0 being midnight of 1 January.                                *)
(***************************************************************************)
EXTENDS Integers, Sequences, FiniteSets, TLC

\* ------------------------------------------------------------------ bounds
TicksPerDay == 2        \* resolution of the time of day
MaxDay == 2             \* the booking model runs over days 0..MaxDay
MaxBookings == 2        \* rows of the Guest Bookings sheet
MaxMonth == 14          \* months the calendar covers

\* --------------------------------------------------------------- constants
GUEST_BOOKINGS_SHEET_NAME == "Guest Bookings"
GUEST_ROOMS_SHEET_NAME == "Guest Rooms"
TENANTS_SHEET_NAME == "Tenants"
BUDGET_SHEET_NAME == "Budget"

BOOKING_STATUS ==
  [PENDING |-> "Pending", CONFIRMED |-> "Confirmed", CHECKED_IN |-> "Checked In",
   CHECKED_OUT |-> "Checked Out", CANCELLED |-> "Cancelled"]

BookingStatuses ==
  {BOOKING_STATUS.PENDING, BOOKING_STATUS.CONFIRMED, BOOKING_STATUS.CHECKED_IN,
   BOOKING_STATUS.CHECKED_OUT, BOOKING_STATUS.CANCELLED}

\* An empty cell where a date is expected ('' in the sheet, an Invalid Date
\* once passed through new Date()): it compares false with everything.
NoDate == -1

\* ---------------------------------------------------------------- calendar
\* Length of month k (k counted from January of year 0, non-leap years).
DaysInMonth(k) ==
  CASE k % 12 = 1 -> 28
    [] k % 12 \in {3, 5, 8, 10} -> 30
    [] OTHER -> 31

RECURSIVE FirstDayOfMonth(_)
\* Day number of the first day of month k.
FirstDayOfMonth(k) ==
  IF k <= 0 THEN 0 ELSE FirstDayOfMonth(k - 1) + DaysInMonth(k - 1)

\* The calendar day a tick falls in.
DayOf(t) == t \div TicksPerDay

\* date.setHours(0, 0, 0, 0)
Midnight(t) == IF t = NoDate THEN NoDate ELSE DayOf(t) * TicksPerDay

\* Month index (year * 12 + getMonth()) of a tick.
MonthIndex(t) ==
  CHOOSE k \in 0..MaxMonth :
    /\ FirstDayOfMonth(k) <= DayOf(t)
    /\ DayOf(t) < FirstDayOfMonth(k + 1)

\* new Date(year, month, 1) for month index k: midnight of its first day.
FirstOfMonth(k) == FirstDayOfMonth(k) * TicksPerDay

\* new Date(year, month + 1, 0) for month index k: midnight of its last day.
LastOfMonth(k) == (FirstDayOfMonth(k + 1) - 1) * TicksPerDay

\* ------------------------------------------------------------------- state
VARIABLES
  guestRooms,      \* rows of the Guest Rooms sheet, in sheet order
  bookings,        \* rows of the Guest Bookings sheet, in sheet order
  budget,          \* rows of the Budget sheet, in sheet order
  tenants,         \* rows of the Tenants sheet, in sheet order
  pricingRules,    \* rows of the Pricing Rules sheet, in sheet order
  inFlight,        \* handler runs that have read their sheet and not yet written
  triggers,        \* the installed triggers of the project, oldest first
  now,             \* the clock, in ticks
  activeSheet,     \* the sheet the operator has open
  activeRow,       \* the row of the operator's selection
  alert,           \* the dialog the last handler ended with
  result           \* what the last handler computed, mailed and showed, if anything

vars == <<guestRooms, bookings, budget, tenants, pricingRules, inFlight, triggers, now, activeSheet,
          activeRow, alert, result>>

NoResult == <<>>
NoAlert == "none"

\* ------------------------------------------------------ Guest Rooms sheet
RoomNumbers == {"G1", "G2"}

\* updateGuestRoomStatus: the first row whose number matches is rewritten.
RECURSIVE FirstMatch(_, _, _)
FirstMatch(rooms, roomNumber, i) ==
  IF i > Len(rooms) THEN 0
  ELSE IF rooms[i].number = roomNumber THEN i
  ELSE FirstMatch(rooms, roomNumber, i + 1)

updateGuestRoomStatus(rooms, roomNumber, status, guestName, checkIn, checkOut) ==
  LET i == FirstMatch(rooms, roomNumber, 1) IN
    IF i = 0 THEN rooms
    ELSE [rooms EXCEPT ![i] = [@ EXCEPT !.status = status,
                                        !.currentGuest = guestName,
                                        !.checkIn = checkIn,
                                        !.checkOut = checkOut]]

\* logGuestRoomRevenue: one row appended to the Budget sheet.
logGuestRoomRevenue(ledger, guestName, roomNumber, amount) ==
  Append(ledger, [date |-> now, type |-> "Guest Room Income",
                  guest |-> guestName, room |-> roomNumber,
                  amount |-> amount, category |-> "Guest Room"])

\* ---------------------------------------------------- Guest Bookings sheet
\* A row below the last booking: every cell is empty.
EmptyBookingRow ==
  [id |-> "", guestName |-> "", guestEmail |-> "", roomNumber |-> "",
   checkIn |-> NoDate, checkOut |-> NoDate, totalAmount |-> 0, amountPaid |-> 0,
   status |-> ""]

\* sheet.getRange(row, ...).getValue(s): row 1 is the header, row r holds booking r - 1.
BookingRow(row) ==
  IF row - 1 \in 1..Len(bookings) THEN bookings[row - 1] ELSE EmptyBookingRow

\* What an operator can have selected: the header or a booking of the
\* Guest Bookings sheet, or a row of another sheet.
Selections ==
  ({GUEST_BOOKINGS_SHEET_NAME} \X (1..(Len(bookings) + 1))) \cup {<<TENANTS_SHEET_NAME, 2>>}

\* The operator's selection when a menu handler starts:
\* getActiveSheet().getName() and getActiveRange().getRow().
Selected(sheet, row) ==
  /\ activeSheet' = sheet
  /\ activeRow' = row

\* A handler that returns after a dialog, having written nothing.
Quiet(message) ==
  /\ alert' = message
  /\ result' = NoResult
  /\ UNCHANGED <<guestRooms, bookings, budget, tenants, pricingRules, inFlight, triggers, now>>

\* A check-in guard that also lets a Pending booking through.
CheckInAllowedSkipping(bookingStatus) ==
  bookingStatus \in {BOOKING_STATUS.PENDING, BOOKING_STATUS.CONFIRMED}

\* processCheckIn: 'Only confirmed bookings can be checked in.'
CheckInAllowed(bookingStatus) == bookingStatus = BOOKING_STATUS.CONFIRMED

processCheckIn(sheet, row) ==
  /\ Selected(sheet, row)
  /\ IF sheet # GUEST_BOOKINGS_SHEET_NAME
         THEN Quiet("Please select a booking in the Guest Bookings sheet.")
       ELSE IF row <= 1
         THEN Quiet("Please select a booking row.")
       ELSE IF ~CheckInAllowed(BookingRow(row).status)
         THEN Quiet("Only confirmed bookings can be checked in.")
       ELSE
         /\ bookings' = [bookings EXCEPT ![row - 1].status = BOOKING_STATUS.CHECKED_IN]
         /\ guestRooms' = updateGuestRoomStatus(guestRooms, BookingRow(row).roomNumber, "Occupied",
                                                BookingRow(row).guestName, now,
                                                BookingRow(row).checkOut)
         /\ alert' = "Check-In Complete"
         /\ result' = NoResult
         /\ UNCHANGED <<budget, tenants, pricingRules, inFlight, triggers, now>>

\* A check-out guard that rejects only finished bookings.
CheckOutAllowedLoose(bookingStatus) ==
  bookingStatus \notin {BOOKING_STATUS.CHECKED_OUT, BOOKING_STATUS.CANCELLED}

\* processCheckOut: 'Only checked-in bookings can be checked out.'
CheckOutAllowed(bookingStatus) == bookingStatus = BOOKING_STATUS.CHECKED_IN

\* processCheckOut; proceed is the operator's answer to 'Outstanding Balance'.
processCheckOut(sheet, row, proceed) ==
  /\ Selected(sheet, row)
  /\ IF sheet # GUEST_BOOKINGS_SHEET_NAME
         THEN Quiet("Please select a booking in the Guest Bookings sheet.")
       ELSE IF row <= 1
         THEN Quiet("Please select a booking row.")
       ELSE IF ~CheckOutAllowed(BookingRow(row).status)
         THEN Quiet("Only checked-in bookings can be checked out.")
       ELSE IF BookingRow(row).amountPaid < BookingRow(row).totalAmount /\ ~proceed
         THEN Quiet("Outstanding Balance")
       ELSE
         /\ bookings' = [bookings EXCEPT ![row - 1].status = BOOKING_STATUS.CHECKED_OUT]
         /\ guestRooms' = updateGuestRoomStatus(guestRooms, BookingRow(row).roomNumber, "Available",
                                                "", NoDate, NoDate)
         /\ budget' = logGuestRoomRevenue(budget, BookingRow(row).guestName,
                                          BookingRow(row).roomNumber, BookingRow(row).amountPaid)
         /\ alert' = "Check-Out Complete"
         /\ result' = NoResult
         /\ UNCHANGED <<tenants, pricingRules, inFlight, triggers, now>>

\* A promotion test that also revives a Cancelled booking.
ConfirmationPromotesCancelled(bookingStatus) ==
  bookingStatus \in {BOOKING_STATUS.PENDING, BOOKING_STATUS.CANCELLED}

\* sendBookingConfirmation: the status is promoted 'if it was pending'.
ConfirmationPromotes(bookingStatus) == bookingStatus = BOOKING_STATUS.PENDING

\* sendBookingConfirmation; delivered is whether MailApp.sendEmail returned
\* (it throws on an empty recipient).
sendBookingConfirmation(sheet, row, delivered) ==
  /\ Selected(sheet, row)
  /\ IF sheet # GUEST_BOOKINGS_SHEET_NAME
         THEN Quiet("Please select a booking in the Guest Bookings sheet.")
       ELSE IF row <= 1
         THEN Quiet("Please select a booking row.")
       ELSE IF ~delivered \/ BookingRow(row).guestEmail = ""
         THEN Quiet("Error")
       ELSE
         /\ bookings' = IF ConfirmationPromotes(BookingRow(row).status)
                          THEN [bookings EXCEPT ![row - 1].status = BOOKING_STATUS.CONFIRMED]
                          ELSE bookings
         /\ alert' = "Email Sent"
         /\ result' = NoResult
         /\ UNCHANGED <<guestRooms, budget, tenants, pricingRules, inFlight, triggers, now>>

\* dailyGuestRoomCheck: a departure is a Checked In row whose check-out day is today.
IsDeparture(row, today) ==
  /\ row.checkOut # NoDate
  /\ Midnight(row.checkOut) = today
  /\ row.status = BOOKING_STATUS.CHECKED_IN

\* The body of data.forEach for row i of the snapshot, applied to the sheets st.
AutoCheckOut(data, i, st) ==
  IF IsDeparture(data[i], Midnight(now))
    THEN [b |-> [st.b EXCEPT ![i].status = BOOKING_STATUS.CHECKED_OUT],
          r |-> updateGuestRoomStatus(st.r, data[i].roomNumber, "Available", "", NoDate, NoDate),
          l |-> IF data[i].amountPaid >= data[i].totalAmount
                  THEN logGuestRoomRevenue(st.l, data[i].guestName, data[i].roomNumber,
                                           data[i].amountPaid)
                  ELSE st.l]
    ELSE st

RECURSIVE ForEachBooking(_, _, _)
ForEachBooking(data, i, st) ==
  IF i > Len(data) THEN st ELSE ForEachBooking(data, i + 1, AutoCheckOut(data, i, st))

dailyGuestRoomCheck ==
  LET st == ForEachBooking(bookings, 1, [b |-> bookings, r |-> guestRooms, l |-> budget]) IN
    /\ bookings' = st.b
    /\ guestRooms' = st.r
    /\ budget' = st.l
    /\ alert' = NoAlert
    /\ result' = NoResult
    /\ UNCHANGED <<tenants, pricingRules, inFlight, triggers, now, activeSheet, activeRow>>

\* The clock: a day passes between two runs of the daily trigger.
Tick ==
  /\ DayOf(now) < MaxDay
  /\ now' = now + TicksPerDay
  /\ alert' = NoAlert
  /\ result' = NoResult
  /\ UNCHANGED <<guestRooms, bookings, budget, tenants, pricingRules, inFlight, triggers, activeSheet, activeRow>>

\* ------------------------------------------------- the booking life cycle
\* ------------------------------------------------------- availability
\* A Date-against-Date comparison of JavaScript: false when either is invalid.
LessOrEqual(a, b) == a # NoDate /\ b # NoDate /\ a <= b

\* An overlap test that counts the check-out day as occupied.
DatesOverlapClosed(checkIn, checkOut, bookingCheckIn, bookingCheckOut) ==
  ~(  (bookingCheckIn # NoDate /\ checkOut < bookingCheckIn)
   \/ (bookingCheckOut # NoDate /\ checkIn > bookingCheckOut))

\* A status test that lets a Pending booking hold its room too.
HoldsRoomPending(bookingStatus) ==
  bookingStatus \in {BOOKING_STATUS.PENDING, BOOKING_STATUS.CONFIRMED,
                     BOOKING_STATUS.CHECKED_IN}

\* getAvailableGuestRooms: 'Check for date overlap' of a request with a booking.
DatesOverlap(checkIn, checkOut, bookingCheckIn, bookingCheckOut) ==
  ~(LessOrEqual(checkOut, bookingCheckIn) \/ LessOrEqual(bookingCheckOut, checkIn))

\* getAvailableGuestRooms: the booking statuses that hold a room.
HoldsRoom(bookingStatus) ==
  bookingStatus \in {BOOKING_STATUS.CONFIRMED, BOOKING_STATUS.CHECKED_IN}

\* The inner forEach: no Confirmed or Checked In booking of the room overlaps the request.
IsAvailable(room, bookingsData, checkIn, checkOut) ==
  \A j \in 1..Len(bookingsData) :
    ~(/\ bookingsData[j].roomNumber = room.number
      /\ HoldsRoom(bookingsData[j].status)
      /\ DatesOverlap(checkIn, checkOut, bookingsData[j].checkIn, bookingsData[j].checkOut))

\* A listing test that forgets the Maintenance flag.
IsListedAnyStatus(isAvailable, roomStatus) == isAvailable

\* A free room is listed unless it is under maintenance.
IsListed(isAvailable, roomStatus) == isAvailable /\ roomStatus # "Maintenance"

RECURSIVE ForEachRoom(_, _, _, _, _, _)
\* The outer forEach: rows without a room number are skipped, listed rooms are pushed.
ForEachRoom(roomsData, i, bookingsData, checkIn, checkOut, availableRooms) ==
  IF i > Len(roomsData) THEN availableRooms
  ELSE ForEachRoom(roomsData, i + 1, bookingsData, checkIn, checkOut,
         IF /\ roomsData[i].number # ""
            /\ IsListed(IsAvailable(roomsData[i], bookingsData, checkIn, checkOut),
                        roomsData[i].status)
           THEN Append(availableRooms, roomsData[i].number)
           ELSE availableRooms)

\* The room numbers getAvailableGuestRooms returns for the data rows of the two sheets.
getAvailableGuestRooms(roomsData, bookingsData, checkIn, checkOut) ==
  ForEachRoom(roomsData, 1, bookingsData, checkIn, checkOut, <<>>)

\* checkGuestRoomAvailability: the two dates are what the operator typed
\* (NoDate when new Date(text) is invalid).  getRange over zero data rows throws.
checkGuestRoomAvailability(checkIn, checkOut) ==
  IF checkIn = NoDate \/ checkOut = NoDate
    THEN /\ Quiet("Invalid dates entered.")
         /\ UNCHANGED <<triggers, activeSheet, activeRow>>
  ELSE IF Len(guestRooms) = 0 \/ Len(bookings) = 0
    THEN /\ Quiet("Exception: The number of rows in the range must be at least 1.")
         /\ UNCHANGED <<triggers, activeSheet, activeRow>>
  ELSE
    /\ result' = [checkIn |-> checkIn, checkOut |-> checkOut,
                  availableRooms |-> getAvailableGuestRooms(guestRooms, bookings,
                                                            checkIn, checkOut)]
    /\ alert' = IF Len(result'.availableRooms) = 0 THEN "No Rooms Available"
                                                    ELSE "Available Rooms"
    /\ UNCHANGED <<guestRooms, bookings, budget, tenants, pricingRules, inFlight, triggers, now, activeSheet,
                   activeRow>>

\* Stays entered in the sheet: whole days, check-out after check-in.
Stays ==
  {<<a * TicksPerDay, b * TicksPerDay>> : a \in 0..MaxDay, b \in 0..MaxDay} \cap
  {s \in (0..(MaxDay * TicksPerDay)) \X (0..(MaxDay * TicksPerDay)) :
     s[1] < s[2] /\ s[2] - s[1] <= 2 * TicksPerDay}

TotalAmount == 100

BookingIds == <<"B1", "B2", "B3", "B4">>
GuestNames == <<"Ana", "Ben", "Cleo", "Dov">>

BookingOf(i, room, stay, paid, status) ==
  [id |-> BookingIds[i], guestName |-> GuestNames[i], guestEmail |-> "guest@example.org", roomNumber |-> room,
   checkIn |-> stay[1], checkOut |-> stay[2], totalAmount |-> TotalAmount,
   amountPaid |-> paid, status |-> status]

\* The bookings an operator has entered before any handler ran.
EnteredBookings(i) ==
  {BookingOf(i, room, stay, paid, status) :
     room \in RoomNumbers, stay \in Stays, paid \in {0, TotalAmount},
     status \in {BOOKING_STATUS.PENDING, BOOKING_STATUS.CONFIRMED, BOOKING_STATUS.CANCELLED}}

\* Two rows that hold the same room on overlapping nights.
DoubleBooked(b1, b2) ==
  /\ b1.roomNumber = b2.roomNumber
  /\ HoldsRoom(b1.status) /\ HoldsRoom(b2.status)
  /\ b1.checkIn < b2.checkOut /\ b2.checkIn < b1.checkOut

NoDoubleBooking(bs) ==
  \A i, j \in 1..Len(bs) : i < j => ~DoubleBooked(bs[i], bs[j])

RoomOf(number, status) ==
  [number |-> number, status |-> status, currentGuest |-> "", checkIn |-> NoDate,
   checkOut |-> NoDate]

Init ==
  /\ guestRooms \in {<<RoomOf("G1", s1), RoomOf("G2", s2)>> :
                       s1 \in {"Available"}, s2 \in {"Available"}}
  /\ bookings \in {bs \in [1..MaxBookings -> UNION {EnteredBookings(i) : i \in 1..MaxBookings}] :
                     /\ \A i \in 1..MaxBookings : bs[i].id = BookingIds[i]
                     /\ NoDoubleBooking(bs)}
  /\ budget = <<>>
  /\ tenants = <<>>
  /\ pricingRules = <<>>
  /\ inFlight = <<>>
  /\ triggers = <<>>
  /\ now = 0
  /\ activeSheet = GUEST_BOOKINGS_SHEET_NAME
  /\ activeRow = 1
  /\ alert = NoAlert
  /\ result = NoResult

Next ==
  \/ \E sel \in Selections : processCheckIn(sel[1], sel[2])
  \/ \E sel \in Selections, proceed \in BOOLEAN : processCheckOut(sel[1], sel[2], proceed)
  \/ \E sel \in Selections, delivered \in BOOLEAN :
       sendBookingConfirmation(sel[1], sel[2], delivered)
  \/ dailyGuestRoomCheck
  \/ Tick

Spec == Init /\ [][Next]_vars

\* C25: sendBookingConfirmation leaves every row as it was when the mail
\* could not be sent; when it was sent, the selected row goes from Pending to
\* Confirmed, a selected row in another status keeps it, and no other row
\* changes.
C25_ConfirmedOnlyAfterMail ==
  [][/\ alert' = "Error" => bookings' = bookings
     /\ alert' = "Email Sent" =>
          \A i \in 1..Len(bookings) :
            bookings'[i] =
              IF i = activeRow' - 1 /\ bookings[i].status = BOOKING_STATUS.PENDING
                THEN [bookings[i] EXCEPT !.status = BOOKING_STATUS.CONFIRMED]
                ELSE bookings[i]]_vars

\* A confirmation was mailed for a row that is now Confirmed.
C25_Witness ==
  /\ alert = "Email Sent"
  /\ activeRow - 1 \in 1..Len(bookings)
  /\ bookings[activeRow - 1].status = BOOKING_STATUS.CONFIRMED

\* The Guest Room income rows of the ledger for a booking's guest and room.
IncomeEntries(booking) ==
  {e \in 1..Len(budget) : /\ budget[e].category = "Guest Room"
                          /\ budget[e].guest = booking.guestName
                          /\ budget[e].room = booking.roomNumber}

\* C26: every booking that is Checked Out has exactly one Guest Room income
\* entry in the ledger, however it was checked out and whatever was paid.
C26_OneEntryPerCheckOut ==
  \A i \in 1..Len(bookings) :
    bookings[i].status = BOOKING_STATUS.CHECKED_OUT
      => Cardinality(IncomeEntries(bookings[i])) = 1

\* ------------------------------------------ the availability check alone
AvailDays == 4          \* requests and bookings lie in days 0..AvailDays

\* The dates an operator can type: whole days, or text that is no date.
RequestDates == {d * TicksPerDay : d \in 0..AvailDays} \cup {NoDate}

\* Two adjoining stays: odd rows hold the first, even rows the second.
AvailStay(i) ==
  IF i % 2 = 1 THEN <<1 * TicksPerDay, (AvailDays - 1) * TicksPerDay>>
               ELSE <<(AvailDays - 1) * TicksPerDay, AvailDays * TicksPerDay>>

\* Bookings of every status, on either room.
AvailBookings(i) ==
  {BookingOf(i, room, AvailStay(i), TotalAmount, status) :
     room \in RoomNumbers, status \in BookingStatuses}

\* Guest Rooms sheets: either order of the rooms, a row without number, any status.
AvailRooms ==
  {<<RoomOf(n[1], s1), RoomOf(n[2], s2)>> :
     n \in {<<"G1", "G2">>, <<"G2", "G1">>, <<"G1", "">>},
     s1 \in {"Available", "Maintenance"}, s2 \in {"Occupied", "Maintenance"}}

InitAvail ==
  /\ guestRooms \in AvailRooms
  /\ bookings \in {bs \in [1..MaxBookings -> UNION {AvailBookings(i) : i \in 1..MaxBookings}] :
                     \A i \in 1..MaxBookings : bs[i].id = BookingIds[i]}
  /\ budget = <<>>
  /\ tenants = <<>>
  /\ pricingRules = <<>>
  /\ inFlight = <<>>
  /\ triggers = <<>>
  /\ now = 0
  /\ activeSheet = GUEST_BOOKINGS_SHEET_NAME
  /\ activeRow = 1
  /\ alert = NoAlert
  /\ result = NoResult

NextAvail ==
  \E checkIn \in RequestDates, checkOut \in RequestDates :
    checkGuestRoomAvailability(checkIn, checkOut)

SpecAvail == InitAvail /\ [][NextAvail]_vars

\* --------------------------------------------------- claims on Spec
StatusEdges ==
  {<<BOOKING_STATUS.PENDING, BOOKING_STATUS.CONFIRMED>>,
   <<BOOKING_STATUS.PENDING, BOOKING_STATUS.CANCELLED>>,
   <<BOOKING_STATUS.CONFIRMED, BOOKING_STATUS.CHECKED_IN>>,
   <<BOOKING_STATUS.CONFIRMED, BOOKING_STATUS.CANCELLED>>,
   <<BOOKING_STATUS.CHECKED_IN, BOOKING_STATUS.CHECKED_OUT>>}

\* C1: whatever handler runs, a booking keeps its status or moves along one
\* edge of Pending -> Confirmed | Cancelled, Confirmed -> Checked In |
\* Cancelled, Checked In -> Checked Out: a Checked Out or Cancelled booking
\* never changes again and no state is skipped.
C1_StatusMovesAlongEdges ==
  [][/\ Len(bookings') = Len(bookings)
     /\ \A i \in 1..Len(bookings) :
          \/ bookings'[i].status = bookings[i].status
          \/ <<bookings[i].status, bookings'[i].status>> \in StatusEdges]_vars

\* A booking that went all the way to Checked Out, on which a further
\* check-out was then attempted.
C1_Witness ==
  /\ activeSheet = GUEST_BOOKINGS_SHEET_NAME
  /\ BookingRow(activeRow).status = BOOKING_STATUS.CHECKED_OUT
  /\ alert = "Only checked-in bookings can be checked out."
  /\ \E i \in 1..Len(bookings) : bookings[i].status = BOOKING_STATUS.CANCELLED

\* C2: no two bookings that hold the same room (Confirmed or Checked In)
\* have overlapping stays [check-in, check-out).
C2_NoDoubleBooking == NoDoubleBooking(bookings)

\* C7: a check-out of a selected booking that is not Checked In ends with
\* 'Only checked-in bookings can be checked out.' and leaves the bookings,
\* the guest rooms and the budget as they were.
C7_CheckOutRejected ==
  [][\A proceed \in BOOLEAN :
       (/\ activeSheet' = GUEST_BOOKINGS_SHEET_NAME
        /\ activeRow' > 1
        /\ BookingRow(activeRow').status # BOOKING_STATUS.CHECKED_IN
        /\ processCheckOut(activeSheet', activeRow', proceed))
       => (/\ alert' = "Only checked-in bookings can be checked out."
           /\ bookings' = bookings
           /\ guestRooms' = guestRooms
           /\ budget' = budget)]_vars

\* A check-out was attempted on a Pending booking and rejected.
C7_Witness ==
  /\ activeSheet = GUEST_BOOKINGS_SHEET_NAME
  /\ activeRow > 1
  /\ BookingRow(activeRow).status = BOOKING_STATUS.PENDING
  /\ alert = "Only checked-in bookings can be checked out."

\* --------------------------------------------------- claims on SpecAvail
\* The availability check returned a list of rooms.
Answered == alert \in {"Available Rooms", "No Rooms Available"}

Listed(number) ==
  \E k \in 1..Len(result.availableRooms) : result.availableRooms[k] = number

\* Booking b holds the room with this number.
Holding(b, number) ==
  b.roomNumber = number /\ b.status \in {"Confirmed", "Checked In"}

\* C3: a room is left out whenever a Confirmed or Checked In booking of it
\* has checkIn < bOut and checkOut > bIn; a room that has a number, is not
\* under maintenance and whose holding bookings all have bOut <= checkIn or
\* bIn >= checkOut is listed (a request may start on a check-out day).
C3_OverlapDecidesAvailability ==
  Answered =>
    \A i \in 1..Len(guestRooms) :
      /\ (\E j \in 1..Len(bookings) :
            /\ Holding(bookings[j], guestRooms[i].number)
            /\ result.checkIn < bookings[j].checkOut
            /\ result.checkOut > bookings[j].checkIn)
         => ~Listed(guestRooms[i].number)
      /\ (/\ guestRooms[i].number # ""
          /\ guestRooms[i].status # "Maintenance"
          /\ \A j \in 1..Len(bookings) :
               Holding(bookings[j], guestRooms[i].number)
               => \/ bookings[j].checkOut <= result.checkIn
                  \/ bookings[j].checkIn >= result.checkOut)
         => Listed(guestRooms[i].number)

\* A request that starts on the check-out day of a Confirmed booking gets
\* that room, while a room with an overlapping Confirmed booking is left out.
C3_Witness ==
  /\ Answered
  /\ \E j \in 1..Len(bookings) :
       /\ bookings[j].status = "Confirmed"
       /\ bookings[j].checkOut = result.checkIn
       /\ Listed(bookings[j].roomNumber)
  /\ \E j \in 1..Len(bookings) :
       /\ bookings[j].status = "Confirmed"
       /\ result.checkIn < bookings[j].checkOut
       /\ result.checkOut > bookings[j].checkIn
       /\ ~Listed(bookings[j].roomNumber)

Inactive(b) == b.status \in {"Cancelled", "Pending", "Checked Out"}

RemoveAt(bs, i) == SubSeq(bs, 1, i - 1) \o SubSeq(bs, i + 1, Len(bs))

\* The booking lists that differ from bs in one Cancelled, Pending or
\* Checked Out row: the row removed, changed, or added.
InactiveVariants(bs) ==
  LET others == {b \in UNION {AvailBookings(i) : i \in 1..(MaxBookings + 1)} : Inactive(b)} IN
    {RemoveAt(bs, i) : i \in {k \in 1..Len(bs) : Inactive(bs[k])}}
    \cup {[bs EXCEPT ![i] = b] : i \in {k \in 1..Len(bs) : Inactive(bs[k])}, b \in others}
    \cup {Append(bs, b) : b \in others}

C5_NoMaintenanceInSheetOrder ==
  Answered =>
    /\ \A i \in 1..Len(guestRooms) :
         guestRooms[i].status = "Maintenance" => ~Listed(guestRooms[i].number)
    /\ \A a, b \in 1..Len(result.availableRooms) :
         a < b => \E i, j \in 1..Len(guestRooms) :
                    /\ i < j
                    /\ guestRooms[i].number = result.availableRooms[a]
                    /\ guestRooms[j].number = result.availableRooms[b]

\* A room under maintenance that no booking holds is left out, the room
\* before it is listed.
C5_Witness ==
  /\ Answered
  /\ guestRooms[2].status = "Maintenance"
  /\ guestRooms[2].number # ""
  /\ \A j \in 1..Len(bookings) : ~Holding(bookings[j], guestRooms[2].number)
  /\ ~Listed(guestRooms[2].number)
  /\ result.availableRooms = <<guestRooms[1].number>>

\* C6: a request whose check-out is not after its check-in is answered with
\* an error, never with a list of rooms.
C6_EmptyRangeRejected ==
  Answered => result.checkOut > result.checkIn

\* ------------------------------------------------- tenants: payment status
MaxTenants == 2         \* data rows of the Tenants sheet
MaxLedger == 2          \* rent entries appended to the Budget sheet

\* A cell that holds text where a date is expected.
TextCell == -2

\* lastPayment instanceof Date: the cell holds a date, not '' or text.
IsDate(value) == value \notin {NoDate, TextCell}

\* A comparison that leaves the first day of the month out.
IsOnOrAfterStrict(lastPayment, firstOfMonth) == lastPayment > firstOfMonth

\* lastPayment >= firstThisMonth, lastPayment >= firstLastMonth
IsOnOrAfter(lastPayment, firstOfMonth) == lastPayment >= firstOfMonth

\* A row that is not Occupied keeps the status it had.
StatusWhenNotOccupiedKept(row) == row.paymentStatus

\* row[COL_PAYMENT_STATUS - 1] = '' for a row that is not Occupied.
StatusWhenNotOccupied(row) == ""

\* The body of data.forEach in checkAllPaymentStatus: the status written to a row.
PaymentStatusFor(row, today) ==
  LET firstThisMonth == FirstOfMonth(MonthIndex(today))
      firstLastMonth == FirstOfMonth(MonthIndex(today) - 1)
      lastPayment == row.lastPayment
  IN  IF row.roomStatus # "Occupied" THEN StatusWhenNotOccupied(row)
      ELSE IF IsDate(lastPayment) /\ IsOnOrAfter(lastPayment, firstThisMonth) THEN "Paid"
      ELSE IF IsDate(lastPayment) /\ IsOnOrAfter(lastPayment, firstLastMonth) THEN "Due"
      ELSE "Overdue"

\* checkAllPaymentStatus: returns at once on a sheet without data rows,
\* otherwise rewrites the payment status of every row and tells the operator.
checkAllPaymentStatus ==
  IF Len(tenants) = 0
    THEN UNCHANGED vars
    ELSE /\ tenants' = [i \in 1..Len(tenants) |->
                          [tenants[i] EXCEPT !.paymentStatus = PaymentStatusFor(tenants[i], now)]]
         /\ alert' = "Payment Status Updated"
         /\ result' = NoResult
         /\ UNCHANGED <<guestRooms, bookings, budget, pricingRules, inFlight, triggers, now, activeSheet, activeRow>>

\* sheet.getRange(row, ...) of the Tenants sheet; row 1 is the header.
TenantRow(row) == tenants[row - 1]

\* An empty cell where a price is expected.
NoPrice == -1

\* negotiated price || rental price: an empty cell and 0 are both falsy.
RentOf(tenant) ==
  IF tenant.negotiatedPrice \in {NoPrice, 0} THEN tenant.rentalPrice
                                             ELSE tenant.negotiatedPrice

\* markPaymentReceived on the selected row: the row becomes Paid as of now
\* and the rent is appended to the Budget sheet.
markPaymentReceived(sheet, row) ==
  /\ Selected(sheet, row)
  /\ IF sheet # TENANTS_SHEET_NAME
       THEN Quiet("Please select a row in the Tenants sheet.")
     ELSE IF row <= 1
       THEN Quiet("Please select a tenant row.")
     ELSE
       /\ Len(budget) < MaxLedger
       /\ tenants' = [tenants EXCEPT ![row - 1].lastPayment = now,
                                     ![row - 1].paymentStatus = "Paid"]
       /\ budget' = Append(budget,
                      [date |-> now, type |-> "Rent Income",
                       guest |-> TenantRow(row).tenantName,
                       room |-> TenantRow(row).roomNumber,
                       amount |-> RentOf(TenantRow(row)), category |-> "Rent"])
       /\ alert' = "Payment Recorded"
       /\ result' = NoResult
       /\ UNCHANGED <<guestRooms, bookings, pricingRules, inFlight, triggers, now>>

RentalPrice == 800
NegotiatedPrice == 750

TenantRooms == <<"101", "102", "103">>
TenantNames == <<"Tia", "Uli", "Vic">>

\* The months the run is in: a March, and the January after it.
PayMonths == {2, 12}

\* Today: the first instant, the middle and the last instant of month k.
PayNows(k) ==
  {FirstOfMonth(k), FirstOfMonth(k) + 14 * TicksPerDay + 1, FirstOfMonth(k + 1) - 1}

\* Last-payment cells: empty, or on either side of the first day of month k
\* and of the month before it.
PaymentDates(k) ==
  {NoDate, FirstOfMonth(k - 1) - 1, FirstOfMonth(k - 1), FirstOfMonth(k) - 1,
   FirstOfMonth(k), FirstOfMonth(k) + 1}

\* Row i of the Tenants sheet; every second room has a negotiated price.
TenantRows(i, k) ==
  {[roomNumber |-> TenantRooms[i], rentalPrice |-> RentalPrice,
    negotiatedPrice |-> IF i % 2 = 0 THEN NegotiatedPrice ELSE NoPrice,
    tenantName |-> TenantNames[i], tenantEmail |-> "tenant@example.org",
    roomStatus |-> roomStatus, lastPayment |-> lastPayment,
    paymentStatus |-> paymentStatus] :
     roomStatus \in {"Occupied", "Vacant"}, lastPayment \in PaymentDates(k),
     paymentStatus \in {"", "Paid", "Due", "Overdue"}}

PaySelections ==
  ({TENANTS_SHEET_NAME} \X (1..(Len(tenants) + 1))) \cup {<<GUEST_BOOKINGS_SHEET_NAME, 2>>}

InitPay ==
  /\ guestRooms = <<>>
  /\ bookings = <<>>
  /\ budget = <<>>
  /\ pricingRules = <<>>
  /\ inFlight = <<>>
  /\ triggers = <<>>
  /\ \E k \in PayMonths :
       /\ now \in PayNows(k)
       /\ tenants \in {ts \in [1..MaxTenants -> UNION {TenantRows(i, k) : i \in 1..MaxTenants}] :
                         \A i \in 1..MaxTenants : ts[i].roomNumber = TenantRooms[i]}
  /\ activeSheet = TENANTS_SHEET_NAME
  /\ activeRow = 1
  /\ alert = NoAlert
  /\ result = NoResult

NextPay ==
  \/ checkAllPaymentStatus
  \/ \E sel \in PaySelections : markPaymentReceived(sel[1], sel[2])

SpecPay == InitPay /\ [][NextPay]_vars

\* ----------------------------------------------------- claims on SpecPay
\* checkAllPaymentStatus was the last handler to run.
StatusesChecked == alert = "Payment Status Updated"

\* C8: after checkAllPaymentStatus every row that is not Occupied has the
\* empty payment status, whatever its last-payment date and earlier status.
C8_NotOccupiedHasNoStatus ==
  StatusesChecked =>
    \A i \in 1..Len(tenants) :
      tenants[i].roomStatus # "Occupied" => tenants[i].paymentStatus = ""

\* A Vacant row that markPaymentReceived had set to Paid as of today is
\* empty again after the check.
C8_Witness ==
  /\ StatusesChecked
  /\ \E i \in 1..Len(tenants) :
       /\ tenants[i].roomStatus = "Vacant"
       /\ tenants[i].lastPayment = now
       /\ \E e \in 1..Len(budget) : budget[e].room = tenants[i].roomNumber
       /\ tenants[i].paymentStatus = ""

\* C9: after checkAllPaymentStatus an Occupied row is Paid iff its last
\* payment is on or after the first day of the current month, Due iff it is
\* on or after the first day of the previous month and before the first day
\* of the current one, and Overdue iff neither (no date included); exactly
\* one of the three holds.
C9_OccupiedStatusByLastPayment ==
  StatusesChecked =>
    \A i \in 1..Len(tenants) :
      tenants[i].roomStatus = "Occupied" =>
        LET lastPayment == tenants[i].lastPayment
            hasDate == lastPayment # NoDate
            firstThisMonth == FirstDayOfMonth(MonthIndex(now)) * TicksPerDay
            firstLastMonth == FirstDayOfMonth(MonthIndex(now) - 1) * TicksPerDay
            paid == hasDate /\ lastPayment >= firstThisMonth
            due == hasDate /\ firstLastMonth <= lastPayment /\ lastPayment < firstThisMonth
        IN  /\ tenants[i].paymentStatus \in {"Paid", "Due", "Overdue"}
            /\ tenants[i].paymentStatus = "Paid" <=> paid
            /\ tenants[i].paymentStatus = "Due" <=> due
            /\ tenants[i].paymentStatus = "Overdue" <=> (~paid /\ ~due)

\* In January, a payment made at midnight of 1 January counts as Paid and
\* one made at midnight of 1 December as Due, next to each other in the sheet.
C9_Witness ==
  /\ StatusesChecked
  /\ MonthIndex(now) = 12
  /\ \E i, j \in 1..Len(tenants) :
       /\ tenants[i].roomStatus = "Occupied"
       /\ tenants[i].lastPayment = FirstOfMonth(12)
       /\ tenants[i].paymentStatus = "Paid"
       /\ tenants[j].roomStatus = "Occupied"
       /\ tenants[j].lastPayment = FirstOfMonth(11)
       /\ tenants[j].paymentStatus = "Due"

\* --------------------------------------------------------- dynamic pricing
\* Text cells that the code takes apart are sequences of characters.
DigitChars == <<"0", "1", "2", "3", "4", "5", "6", "7", "8", "9">>

IsDigit(char) == \E v \in 1..Len(DigitChars) : DigitChars[v] = char

DigitValue(char) == (CHOOSE v \in 1..Len(DigitChars) : DigitChars[v] = char) - 1

RECURSIVE DigitRunEnd(_, _)
\* \d+ from position i: the last position of the run of digits (i - 1 if none).
DigitRunEnd(text, i) ==
  IF i <= Len(text) /\ IsDigit(text[i]) THEN DigitRunEnd(text, i + 1) ELSE i - 1

RECURSIVE ParseDigits(_, _)
\* The decimal value of a run of digits, acc being the value read so far.
ParseDigits(digits, acc) ==
  IF Len(digits) = 0 THEN acc
  ELSE ParseDigits(Tail(digits), acc * 10 + DigitValue(Head(digits)))

\* parseInt of an optional sign followed by digits.
parseInt(text) ==
  IF Head(text) = "-" THEN 0 - ParseDigits(Tail(text), 0)
  ELSE IF Head(text) = "+" THEN ParseDigits(Tail(text), 0)
  ELSE ParseDigits(text, 0)

\* /([+-]\d+)%/ matches at position i.
PercentMatchesAt(text, i) ==
  /\ text[i] \in {"+", "-"}
  /\ DigitRunEnd(text, i + 1) >= i + 1
  /\ DigitRunEnd(text, i + 1) + 1 <= Len(text)
  /\ text[DigitRunEnd(text, i + 1) + 1] = "%"

NoMatch == <<>>

\* adjustment.match(/([+-]\d+)%/): group 1 of the leftmost match, or null.
percentMatch(adjustment) ==
  IF \E i \in 1..Len(adjustment) : PercentMatchesAt(adjustment, i)
    THEN LET i == CHOOSE k \in 1..Len(adjustment) :
                    /\ PercentMatchesAt(adjustment, k)
                    /\ \A m \in 1..(k - 1) : ~PercentMatchesAt(adjustment, m)
         IN  SubSeq(adjustment, i, DigitRunEnd(adjustment, i + 1))
    ELSE NoMatch

\* condition.match(/\d+/): the leftmost run of digits, or null.
digitsMatch(condition) ==
  IF \E i \in 1..Len(condition) : IsDigit(condition[i])
    THEN LET i == CHOOSE k \in 1..Len(condition) :
                    IsDigit(condition[k]) /\ \A m \in 1..(k - 1) : ~IsDigit(condition[m])
         IN  SubSeq(condition, i, DigitRunEnd(condition, i))
    ELSE NoMatch

\* Math.ceil(a / b) for b > 0.
Ceil(a, b) == 0 - ((0 - a) \div b)

dayNames ==
  <<"Sunday", "Monday", "Tuesday", "Wednesday", "Thursday", "Friday", "Saturday">>

\* checkIn.getDay(), 0 for Sunday: day 0 of the calendar is a Wednesday.
getDay(t) == (DayOf(t) + 3) % 7

\* checkIn.getMonth(), 0 for January.
getMonth(t) == MonthIndex(t) % 12

\* A Day of Week or Booking Window or Date Range condition is the list of
\* its phrases; includes looks a phrase up in it.
Includes(condition, phrase) == \E k \in 1..Len(condition) : condition[k] = phrase

\* The switch on the rule type throws when a Length of Stay condition has no digits.
RuleThrows(rule) ==
  rule.type = "Length of Stay" /\ digitsMatch(rule.condition) = NoMatch

\* The switch on the rule type: does the rule apply to the stay?
Applies(rule, checkIn, checkOut, today) ==
  LET nights == Ceil(checkOut - checkIn, TicksPerDay)
      dayOfWeek == getDay(checkIn)
      bookingWindow == Ceil(checkIn - today, TicksPerDay)
      month == getMonth(checkIn)
  IN  CASE rule.type = "Day of Week" -> Includes(rule.condition, dayNames[dayOfWeek + 1])
        [] rule.type = "Length of Stay" -> nights >= parseInt(digitsMatch(rule.condition))
        [] rule.type = "Booking Window" ->
             \/ Includes(rule.condition, "Same day") /\ bookingWindow = 0
             \/ Includes(rule.condition, "30+ days") /\ bookingWindow >= 30
        [] rule.type = "Date Range" ->
             \/ Includes(rule.condition, "June-August") /\ month >= 5 /\ month <= 7
             \/ Includes(rule.condition, "January-February") /\ month <= 1
        [] OTHER -> FALSE

\* Position at which a rule goes into a list sorted by priority: behind
\* every rule whose priority is not greater.
InsertAt(sorted, rule) ==
  IF \E j \in 1..Len(sorted) : sorted[j].priority > rule.priority
    THEN CHOOSE j \in 1..Len(sorted) :
           /\ sorted[j].priority > rule.priority
           /\ \A m \in 1..(j - 1) : sorted[m].priority <= rule.priority
    ELSE Len(sorted) + 1

RECURSIVE SortRules(_, _)
\* rules.sort((a, b) => a[4] - b[4]): a stable sort by priority.
SortRules(rules, sorted) ==
  IF Len(rules) = 0 THEN sorted
  ELSE LET j == InsertAt(sorted, Head(rules))
       IN  SortRules(Tail(rules),
             SubSeq(sorted, 1, j - 1) \o <<Head(rules)>> \o SubSeq(sorted, j, Len(sorted)))

\* finalRate * (1 + percent / 100), the rate kept as the fraction num / den.
Adjusted(rate, percent) == [num |-> rate.num * (100 + percent), den |-> rate.den * 100]

RECURSIVE ForEachRule(_, _, _, _, _, _)
\* rules.forEach over the sorted rules: inactive rules are skipped, a rule
\* that applies and whose adjustment matches changes the rate and is pushed.
ForEachRule(rules, i, checkIn, checkOut, today, acc) ==
  IF i > Len(rules) THEN acc
  ELSE IF rules[i].active # "Yes"
    THEN ForEachRule(rules, i + 1, checkIn, checkOut, today, acc)
  ELSE IF RuleThrows(rules[i])
    THEN [acc EXCEPT !.shape = "TypeError"]
  ELSE IF /\ Applies(rules[i], checkIn, checkOut, today)
          /\ percentMatch(rules[i].adjustment) # NoMatch
    THEN ForEachRule(rules, i + 1, checkIn, checkOut, today,
           [acc EXCEPT !.rate = Adjusted(acc.rate, parseInt(percentMatch(rules[i].adjustment))),
                       !.adjustments = Append(acc.adjustments,
                                              <<rules[i].name, rules[i].adjustment>>)])
  ELSE ForEachRule(rules, i + 1, checkIn, checkOut, today, acc)

\* calculateDynamicPrice: the bare base rate when there are no rules,
\* otherwise the rate and the list of applied adjustments.
calculateDynamicPrice(checkIn, checkOut, baseRate) ==
  /\ result' =
       LET call == [checkIn |-> checkIn, checkOut |-> checkOut, baseRate |-> baseRate,
                    shape |-> "number", rate |-> [num |-> baseRate, den |-> 1],
                    adjustments |-> <<>>]
       IN  IF Len(pricingRules) = 0 THEN call
           ELSE ForEachRule(SortRules(pricingRules, <<>>), 1, checkIn, checkOut, now,
                            [call EXCEPT !.shape = "object"])
  /\ UNCHANGED <<guestRooms, bookings, budget, tenants, pricingRules, inFlight, triggers, now, activeSheet,
                 activeRow, alert>>

MaxRules == 2           \* data rows of the Pricing Rules sheet
BaseRate == 100

RuleNames == <<"Rule A", "Rule B", "Rule C">>

\* Rule types with a condition, after the sample rules.
RuleConditions ==
  {<<"Day of Week", <<"Friday", "Saturday">>>>,
   <<"Length of Stay", <<"2", "+", " ", "n", "i", "g", "h", "t", "s">>>>,
   <<"Booking Window", <<"Same day">>>>,
   <<"Booking Window", <<"30+ days">>>>,
   <<"Date Range", <<"June-August">>>>,
   <<"Date Range", <<"January-February">>>>}

\* Price adjustments as typed: '+20%', '-10%', and '20%' without a sign.
RuleAdjustments ==
  {<<"+", "2", "0", "%">>, <<"-", "1", "0", "%">>, <<"2", "0", "%">>}

PricingRuleRows(i) ==
  {[name |-> RuleNames[i], type |-> tc[1], condition |-> tc[2], adjustment |-> adjustment,
    priority |-> priority, active |-> active] :
     tc \in RuleConditions, adjustment \in RuleAdjustments, priority \in {1, 2},
     active \in {"Yes", "No"}}

\* Stays to price: one night from the first of January (today), of February
\* and of June, and three nights from the third (in January a Friday).
PricedStays ==
  {<<FirstOfMonth(m) + d[1] * TicksPerDay, FirstOfMonth(m) + (d[1] + d[2]) * TicksPerDay>> :
     m \in {0, 1, 5}, d \in {<<0, 1>>, <<2, 3>>}}

InitPrice ==
  /\ guestRooms = <<>>
  /\ bookings = <<>>
  /\ budget = <<>>
  /\ tenants = <<>>
  /\ \E n \in 0..MaxRules :
       pricingRules \in {rs \in [1..n -> UNION {PricingRuleRows(i) : i \in 1..n}] :
                           \A i \in 1..n : rs[i].name = RuleNames[i]}
  /\ inFlight = <<>>
  /\ triggers = <<>>
  /\ now = 1
  /\ activeSheet = GUEST_BOOKINGS_SHEET_NAME
  /\ activeRow = 1
  /\ alert = NoAlert
  /\ result = NoResult

NextPrice ==
  \E stay \in PricedStays : calculateDynamicPrice(stay[1], stay[2], BaseRate)

SpecPrice == InitPrice /\ [][NextPrice]_vars

\* ---------------------------------------------------- claims on SpecPrice
\* calculateDynamicPrice has returned.
Priced == DOMAIN result # {}

\* The rows of the sheet that are active and whose condition the stay satisfies.
Eligible ==
  {i \in 1..Len(pricingRules) :
     /\ pricingRules[i].active = "Yes"
     /\ Applies(pricingRules[i], result.checkIn, result.checkOut, now)}

\* The row of the sheet an applied adjustment names.
RowNamed(entry) == CHOOSE i \in 1..Len(pricingRules) : pricingRules[i].name = entry[1]

RECURSIVE Compounded(_, _)
\* rate times (1 + percent / 100) for each applied adjustment in turn.
Compounded(rate, applied) ==
  IF Len(applied) = 0 THEN rate
  ELSE Compounded([num |-> rate.num * (100 + parseInt(percentMatch(Head(applied)[2]))),
                   den |-> rate.den * 100], Tail(applied))

\* C10: the applied adjustments are exactly the active rules whose condition
\* the stay satisfies, in ascending priority and sheet order among equal
\* priorities, and the rate is the base rate compounded by each of them.
C10_AppliesActiveRulesInPriorityOrder ==
  Priced =>
    /\ {RowNamed(result.adjustments[k]) : k \in 1..Len(result.adjustments)} = Eligible
    /\ Len(result.adjustments) = Cardinality(Eligible)
    /\ \A a, b \in 1..Len(result.adjustments) :
         a < b =>
           LET i == RowNamed(result.adjustments[a])
               j == RowNamed(result.adjustments[b])
           IN  \/ pricingRules[i].priority < pricingRules[j].priority
               \/ pricingRules[i].priority = pricingRules[j].priority /\ i < j
    /\ result.rate = Compounded([num |-> result.baseRate, den |-> 1], result.adjustments)

\* C11: when an active rule whose condition the stay satisfies has an
\* adjustment without a signed percentage, the call fails; it returns no rate.
C11_MalformedAdjustmentRejected ==
  Priced =>
    ((\E i \in Eligible : percentMatch(pricingRules[i].adjustment) = NoMatch)
       => result.shape \notin {"number", "object"})

\* ---------------------------------------------------------- monthly report
\* date >= firstOfMonth && date <= lastOfMonth; an empty cell is in no month.
InReportMonth(date, today) ==
  /\ date # NoDate
  /\ date >= FirstOfMonth(MonthIndex(today))
  /\ date <= LastOfMonth(MonthIndex(today))

NoCategories == [category \in {} |-> 0]

\* byCategory[category] = (byCategory[category] || 0) + amount
AddTo(byCategory, category, amount) ==
  [c \in DOMAIN byCategory \cup {category} |->
     IF c = category
       THEN (IF c \in DOMAIN byCategory THEN byCategory[c] ELSE 0) + amount
       ELSE byCategory[c]]

\* Math.abs(amount)
Abs(amount) == IF amount < 0 THEN 0 - amount ELSE amount

RECURSIVE ForEachBudgetRow(_, _, _, _)
\* data.forEach of generateMonthlyReport: a row of the month goes to the
\* income side if its amount is > 0 and to the expense side otherwise.
ForEachBudgetRow(data, i, today, acc) ==
  IF i > Len(data) THEN acc
  ELSE IF ~InReportMonth(data[i].date, today)
    THEN ForEachBudgetRow(data, i + 1, today, acc)
  ELSE IF data[i].amount > 0
    THEN ForEachBudgetRow(data, i + 1, today,
           [acc EXCEPT !.totalIncome = @ + data[i].amount,
                       !.incomeByCategory = AddTo(@, data[i].category, data[i].amount)])
  ELSE ForEachBudgetRow(data, i + 1, today,
         [acc EXCEPT !.totalExpenses = @ + Abs(data[i].amount),
                     !.expensesByCategory = AddTo(@, data[i].category, Abs(data[i].amount))])

\* generateMonthlyReport: the figures of the report shown in the dialog.
generateMonthlyReport ==
  IF Len(budget) = 0
    THEN /\ Quiet("No budget data found.")
         /\ UNCHANGED <<triggers, activeSheet, activeRow>>
    ELSE /\ result' =
              LET sums == ForEachBudgetRow(budget, 1, now,
                            [totalIncome |-> 0, totalExpenses |-> 0,
                             incomeByCategory |-> NoCategories,
                             expensesByCategory |-> NoCategories])
              IN  [totalIncome |-> sums.totalIncome, totalExpenses |-> sums.totalExpenses,
                   netProfit |-> sums.totalIncome - sums.totalExpenses,
                   incomeByCategory |-> sums.incomeByCategory,
                   expensesByCategory |-> sums.expensesByCategory]
         /\ alert' = "Monthly Financial Report"
         /\ UNCHANGED <<guestRooms, bookings, budget, tenants, pricingRules, inFlight, triggers, now, activeSheet,
                        activeRow>>

MaxEntries == 2         \* data rows of the Budget sheet in the report model
ReportMonth == 1        \* the report is run in a February

\* Dates of ledger rows: none, and the instants around both ends of the month.
EntryDates ==
  {NoDate, FirstOfMonth(ReportMonth) - 1, FirstOfMonth(ReportMonth),
   LastOfMonth(ReportMonth), LastOfMonth(ReportMonth) + 1, FirstOfMonth(ReportMonth + 1)}

\* Rows of the Budget sheet: rent received, a repair paid, and a zero row.
BudgetRows ==
  {[date |-> date, type |-> IF amount < 0 THEN "Maintenance" ELSE "Rent Income",
    guest |-> "Tia", room |-> "101", amount |-> amount, category |-> category] :
     date \in EntryDates, amount \in {RentalPrice, 0 - 150, 0},
     category \in {"Rent", "Repair"}}

InitReport ==
  /\ guestRooms = <<>>
  /\ bookings = <<>>
  /\ tenants = <<>>
  /\ pricingRules = <<>>
  /\ inFlight = <<>>
  /\ triggers = <<>>
  /\ \E n \in 0..MaxEntries : budget \in [1..n -> BudgetRows]
  /\ now \in {FirstOfMonth(ReportMonth), LastOfMonth(ReportMonth) + 1}
  /\ activeSheet = TENANTS_SHEET_NAME
  /\ activeRow = 1
  /\ alert = NoAlert
  /\ result = NoResult

NextReport == generateMonthlyReport

SpecReport == InitReport /\ [][NextReport]_vars

\* --------------------------------------------------- claims on SpecReport
Reported == alert = "Monthly Financial Report"

\* The ledger rows whose date is a day of the current month, first and last
\* day included.
Counted ==
  {i \in 1..Len(budget) :
     /\ budget[i].date # NoDate
     /\ FirstDayOfMonth(MonthIndex(now)) <= DayOf(budget[i].date)
     /\ DayOf(budget[i].date) <= FirstDayOfMonth(MonthIndex(now) + 1) - 1}

RECURSIVE SumOver(_, _)
\* The sum of weight[i] over the rows i of a set.
SumOver(rows, weight) ==
  IF rows = {} THEN 0
  ELSE LET i == CHOOSE r \in rows : TRUE
       IN  weight[i] + SumOver(rows \ {i}, weight)

\* C12: the report counts a row iff its date is a day of the month, both end
\* days included; income is the sum of the counted amounts > 0, expenses the
\* sum of the absolute counted amounts < 0, net profit their difference.
C12_ReportCountsTheMonth ==
  Reported =>
    LET income == [i \in 1..Len(budget) |-> IF budget[i].amount > 0 THEN budget[i].amount ELSE 0]
        expense == [i \in 1..Len(budget) |-> IF budget[i].amount < 0 THEN 0 - budget[i].amount ELSE 0]
    IN  /\ result.totalIncome = SumOver(Counted, income)
        /\ result.totalExpenses = SumOver(Counted, expense)
        /\ result.netProfit = result.totalIncome - result.totalExpenses

\* C13: a row with amount zero changes no total and makes no category appear
\* on either side: every category listed has a counted row of its side that
\* is not zero.
C13_ZeroAmountInNoBucket ==
  Reported =>
    /\ \A c \in DOMAIN result.incomeByCategory :
         \E i \in 1..Len(budget) : budget[i].category = c /\ budget[i].amount > 0
    /\ \A c \in DOMAIN result.expensesByCategory :
         \E i \in 1..Len(budget) : budget[i].category = c /\ budget[i].amount < 0
    /\ \A i \in 1..Len(budget) :
         budget[i].amount = 0 =>
           LET without == SubSeq(budget, 1, i - 1) \o SubSeq(budget, i + 1, Len(budget))
               sums == ForEachBudgetRow(without, 1, now,
                         [totalIncome |-> 0, totalExpenses |-> 0,
                          incomeByCategory |-> NoCategories,
                          expensesByCategory |-> NoCategories])
           IN  /\ result.totalIncome = sums.totalIncome
               /\ result.totalExpenses = sums.totalExpenses

\* ------------------------------------------------------- guest room report
\* The occupancy forEach counts Checked In and Checked Out bookings that
\* touch the month.
CountsForOccupancy(booking, today) ==
  /\ booking.status \in {BOOKING_STATUS.CHECKED_IN, BOOKING_STATUS.CHECKED_OUT}
  /\ booking.checkIn <= LastOfMonth(MonthIndex(today))
  /\ booking.checkOut >= FirstOfMonth(MonthIndex(today))

\* 'Calculate nights within the month': the stay clipped to firstOfMonth and
\* lastOfMonth, in days rounded up.
NightsWithinMonth(booking, today) ==
  LET firstOfMonth == FirstOfMonth(MonthIndex(today))
      lastOfMonth == LastOfMonth(MonthIndex(today))
      startDate == IF booking.checkIn < firstOfMonth THEN firstOfMonth ELSE booking.checkIn
      endDate == IF booking.checkOut > lastOfMonth THEN lastOfMonth ELSE booking.checkOut
  IN  Ceil(endDate - startDate, TicksPerDay)

RECURSIVE TotalNights(_, _, _)
\* totalNights after the forEach over the Guest Bookings rows from row i on.
TotalNights(bookingsData, i, today) ==
  IF i > Len(bookingsData) THEN 0
  ELSE (IF CountsForOccupancy(bookingsData[i], today)
          THEN NightsWithinMonth(bookingsData[i], today) ELSE 0)
       + TotalNights(bookingsData, i + 1, today)

\* The revenue forEach counts Guest Room income rows of the month.
CountsAsRevenue(row, today) ==
  InReportMonth(row.date, today) /\ row.category = "Guest Room" /\ row.amount > 0

RECURSIVE ForEachRevenueRow(_, _, _, _)
ForEachRevenueRow(data, i, today, acc) ==
  IF i > Len(data) THEN acc
  ELSE IF CountsAsRevenue(data[i], today)
    THEN ForEachRevenueRow(data, i + 1, today,
           [acc EXCEPT !.guestRoomRevenue = @ + data[i].amount,
                       !.bookingCount = @ + 1,
                       !.revenueByRoom = AddTo(@, data[i].room, data[i].amount)])
  ELSE ForEachRevenueRow(data, i + 1, today, acc)

\* generateGuestRoomReport: revenue of the month and, when there are
\* bookings, the occupied nights out of 2 rooms times the days of the month.
generateGuestRoomReport ==
  IF Len(budget) = 0
    THEN /\ Quiet("No financial data found.")
         /\ UNCHANGED <<triggers, activeSheet, activeRow>>
    ELSE /\ result' =
              LET revenue == ForEachRevenueRow(budget, 1, now,
                               [guestRoomRevenue |-> 0, bookingCount |-> 0,
                                revenueByRoom |-> NoCategories])
              IN  [guestRoomRevenue |-> revenue.guestRoomRevenue,
                   bookingCount |-> revenue.bookingCount,
                   revenueByRoom |-> revenue.revenueByRoom,
                   hasOccupancy |-> Len(bookings) > 0,
                   totalNights |-> TotalNights(bookings, 1, now),
                   totalRoomNights |-> 2 * DaysInMonth(MonthIndex(now))]
         /\ alert' = "Guest Room Revenue Report"
         /\ UNCHANGED <<guestRooms, bookings, budget, tenants, pricingRules, inFlight, triggers, now, activeSheet,
                        activeRow>>

\* Check-in and check-out days around both ends of the report month.
OccupancyDays ==
  {FirstDayOfMonth(ReportMonth) - 2, FirstDayOfMonth(ReportMonth),
   FirstDayOfMonth(ReportMonth) + 1, FirstDayOfMonth(ReportMonth + 1) - 1,
   FirstDayOfMonth(ReportMonth + 1), FirstDayOfMonth(ReportMonth + 1) + 1}

OccupancyStays ==
  {<<a * TicksPerDay, b * TicksPerDay>> : a \in OccupancyDays, b \in OccupancyDays}
  \cap {s \in Int \X Int : s[1] < s[2]}

OccupancyBookings(i) ==
  {BookingOf(i, IF i % 2 = 1 THEN "G1" ELSE "G2", stay, TotalAmount, status) :
     stay \in OccupancyStays,
     status \in {BOOKING_STATUS.CONFIRMED, BOOKING_STATUS.CHECKED_IN,
                 BOOKING_STATUS.CHECKED_OUT}}

InitOccupancy ==
  /\ guestRooms = <<RoomOf("G1", "Available"), RoomOf("G2", "Available")>>
  /\ now \in {FirstOfMonth(ReportMonth) + 1, LastOfMonth(ReportMonth)}
  /\ bookings \in {bs \in [1..MaxBookings -> UNION {OccupancyBookings(i) : i \in 1..MaxBookings}] :
                     \A i \in 1..MaxBookings : bs[i].id = BookingIds[i]}
  /\ budget \in {<<>>, logGuestRoomRevenue(<<>>, GuestNames[1], "G1", TotalAmount)}
  /\ tenants = <<>>
  /\ pricingRules = <<>>
  /\ inFlight = <<>>
  /\ triggers = <<>>
  /\ activeSheet = GUEST_BOOKINGS_SHEET_NAME
  /\ activeRow = 1
  /\ alert = NoAlert
  /\ result = NoResult

NextOccupancy == generateGuestRoomReport

SpecOccupancy == InitOccupancy /\ [][NextOccupancy]_vars

\* ------------------------------------------------ claims on SpecOccupancy
OccupancyReported == alert = "Guest Room Revenue Report" /\ result.hasOccupancy

\* The nights of a stay [check-in, check-out) that are nights of the month of today.
NightsInMonth(booking) ==
  Cardinality({day \in DayOf(booking.checkIn)..(DayOf(booking.checkOut) - 1) :
                 /\ FirstDayOfMonth(MonthIndex(now)) <= day
                 /\ day < FirstDayOfMonth(MonthIndex(now) + 1)})

\* C14: every Checked In or Checked Out booking contributes the nights of
\* its stay that fall inside the month, a booking over the whole month as
\* many nights as the month has days, and the total stays within the
\* possible room-nights.
C14_OccupancyCountsNightsInMonth ==
  OccupancyReported =>
    LET nights == [i \in 1..Len(bookings) |->
                     IF bookings[i].status \in {"Checked In", "Checked Out"}
                       THEN NightsInMonth(bookings[i]) ELSE 0]
    IN  /\ result.totalNights = SumOver(1..Len(bookings), nights)
        /\ result.totalNights <= result.totalRoomNights

\* ------------------------------------------------ initialising the sheets
SampleRoom(roomNumber, rentalPrice) ==
  [roomNumber |-> roomNumber, rentalPrice |-> rentalPrice, negotiatedPrice |-> NoPrice,
   tenantName |-> "", tenantEmail |-> "", roomStatus |-> "Vacant", lastPayment |-> NoDate,
   paymentStatus |-> ""]

\* addSampleRooms: the rows written to an empty Tenants sheet.
sampleRooms ==
  <<SampleRoom("101", 800), SampleRoom("102", 800), SampleRoom("103", 900),
    SampleRoom("104", 900), SampleRoom("201", 850), SampleRoom("202", 850),
    SampleRoom("203", 950), SampleRoom("204", 950)>>

\* addSampleGuestRooms: the rows written to an empty Guest Rooms sheet.
sampleGuestRooms == <<RoomOf("G1", "Available"), RoomOf("G2", "Available")>>

\* setupSheet on an existing sheet: clearContents, then the header row; no
\* data row is left.
setupSheet(rows) == <<>>

\* initializeSheets: Tenants and Budget are set up again, the sample rooms
\* go into the emptied Tenants sheet.
initializeSheets ==
  /\ tenants' = setupSheet(tenants) \o sampleRooms
  /\ budget' = setupSheet(budget)
  /\ alert' = "Sheets Initialized"
  /\ result' = NoResult
  /\ UNCHANGED <<guestRooms, bookings, pricingRules, inFlight, triggers, now, activeSheet, activeRow>>

\* initializeAllSheets: the same for all four sheets.
initializeAllSheets ==
  /\ tenants' = setupSheet(tenants) \o sampleRooms
  /\ budget' = setupSheet(budget)
  /\ guestRooms' = setupSheet(guestRooms) \o sampleGuestRooms
  /\ bookings' = setupSheet(bookings)
  /\ alert' = "All Sheets Initialized"
  /\ result' = NoResult
  /\ UNCHANGED <<pricingRules, inFlight, triggers, now, activeSheet, activeRow>>

\* One tenant in room 101 and one Confirmed guest booking, both paid for.
InitLedger ==
  /\ guestRooms = sampleGuestRooms
  /\ bookings \in {<<BookingOf(1, "G1", stay, TotalAmount, BOOKING_STATUS.CONFIRMED)>> :
                     stay \in Stays}
  /\ budget = <<>>
  /\ tenants = <<[SampleRoom("101", RentalPrice) EXCEPT
                    !.tenantName = TenantNames[1], !.tenantEmail = "tenant@example.org",
                    !.roomStatus = "Occupied"]>>
  /\ pricingRules = <<>>
  /\ inFlight = <<>>
  /\ triggers = <<>>
  /\ now = 0
  /\ activeSheet = GUEST_BOOKINGS_SHEET_NAME
  /\ activeRow = 1
  /\ alert = NoAlert
  /\ result = NoResult

NextLedger ==
  \/ \E sel \in PaySelections : markPaymentReceived(sel[1], sel[2])
  \/ \E sel \in Selections : processCheckIn(sel[1], sel[2])
  \/ \E sel \in Selections, proceed \in BOOLEAN : processCheckOut(sel[1], sel[2], proceed)
  \/ dailyGuestRoomCheck
  \/ initializeSheets
  \/ initializeAllSheets
  \/ Tick

SpecLedger == InitLedger /\ [][NextLedger]_vars

\* ---------------------------------------------------- claims on SpecLedger
\* C15: the Budget ledger is append-only: after every operation the rows
\* recorded before are all still there, unchanged and in the same order.
C15_LedgerAppendOnly ==
  [][/\ Len(budget') >= Len(budget)
     /\ SubSeq(budget', 1, Len(budget)) = budget]_vars

\* ------------------------------------------- reminders and invoices by mail
\* A reminder test that looks only for a status and an address.
NeedsReminderAnyStatus(row) == row.paymentStatus # "" /\ row.tenantEmail # ""

\* sendRentReminders mails the rows that are Due or Overdue and have an address.
NeedsReminder(row) ==
  row.paymentStatus \in {"Due", "Overdue"} /\ row.tenantEmail # ""

\* sendMonthlyInvoices mails the Occupied rows that have an address.
NeedsInvoice(row) == row.roomStatus = "Occupied" /\ row.tenantEmail # ""

RECURSIVE MailEach(_, _, _, _, _)
\* data.forEach of both batches: a row to be mailed is one MailApp.sendEmail
\* call inside try/catch; delivered[i] tells whether the call for row i
\* returns, and only then is sent incremented.  A caught failure goes to
\* console.error and nowhere else.
MailEach(data, i, kind, delivered, acc) ==
  IF i > Len(data) THEN acc
  ELSE IF (IF kind = "rentReminder" THEN NeedsReminder(data[i]) ELSE NeedsInvoice(data[i]))
    THEN MailEach(data, i + 1, kind, delivered,
           [mails |-> Append(acc.mails,
                        [kind |-> kind, to |-> data[i].tenantEmail,
                         room |-> data[i].roomNumber, rent |-> RentOf(data[i]),
                         delivered |-> delivered[i]]),
            sent |-> IF delivered[i] THEN acc.sent + 1 ELSE acc.sent])
  ELSE MailEach(data, i + 1, kind, delivered, acc)

\* What a batch leaves behind: the mails attempted and the dialog, which
\* shows the number sent.
BatchRun(kind, delivered) ==
  LET run == MailEach(tenants, 1, kind, delivered, [mails |-> <<>>, sent |-> 0])
  IN  [mails |-> run.mails, shown |-> [sent |-> run.sent]]

sendRentReminders(delivered) ==
  IF Len(tenants) = 0
    THEN /\ Quiet("No tenants found.")
         /\ UNCHANGED <<triggers, activeSheet, activeRow>>
    ELSE /\ result' = BatchRun("rentReminder", delivered)
         /\ alert' = "Rent reminders sent"
         /\ UNCHANGED <<guestRooms, bookings, budget, tenants, pricingRules, inFlight, triggers, now, activeSheet,
                        activeRow>>

sendMonthlyInvoices(delivered) ==
  IF Len(tenants) = 0
    THEN UNCHANGED vars
    ELSE /\ result' = BatchRun("monthlyInvoice", delivered)
         /\ alert' = "Monthly invoices sent"
         /\ UNCHANGED <<guestRooms, bookings, budget, tenants, pricingRules, inFlight, triggers, now, activeSheet,
                        activeRow>>

\* Rows of the Tenants sheet for the batches: with and without an address,
\* with no negotiated price, a negotiated price, and a negotiated price of 0.
BatchRows(i) ==
  {[roomNumber |-> TenantRooms[i], rentalPrice |-> RentalPrice,
    negotiatedPrice |-> negotiatedPrice,
    tenantName |-> TenantNames[i], tenantEmail |-> tenantEmail,
    roomStatus |-> roomStatus, lastPayment |-> NoDate,
    paymentStatus |-> paymentStatus] :
     negotiatedPrice \in {NoPrice, NegotiatedPrice, 0},
     tenantEmail \in {"", "tenant@example.org"},
     roomStatus \in {"Occupied", "Vacant"},
     paymentStatus \in {"", "Paid", "Due", "Overdue"}}

InitBatch ==
  /\ guestRooms = <<>>
  /\ bookings = <<>>
  /\ budget = <<>>
  /\ pricingRules = <<>>
  /\ inFlight = <<>>
  /\ triggers = <<>>
  /\ now = FirstOfMonth(ReportMonth)
  /\ tenants \in {ts \in [1..MaxTenants -> UNION {BatchRows(i) : i \in 1..MaxTenants}] :
                    \A i \in 1..MaxTenants : ts[i].roomNumber = TenantRooms[i]}
  /\ activeSheet = TENANTS_SHEET_NAME
  /\ activeRow = 1
  /\ alert = NoAlert
  /\ result = NoResult

NextBatch ==
  \/ \E delivered \in [1..Len(tenants) -> BOOLEAN] : sendRentReminders(delivered)
  \/ \E delivered \in [1..Len(tenants) -> BOOLEAN] : sendMonthlyInvoices(delivered)
  \/ \E sel \in PaySelections : markPaymentReceived(sel[1], sel[2])

SpecBatch == InitBatch /\ [][NextBatch]_vars

\* ----------------------------------------------------- claims on SpecBatch
BatchDone == alert \in {"Rent reminders sent", "Monthly invoices sent"}

\* The rows a batch has to mail.
EligibleRows ==
  {i \in 1..Len(tenants) :
     /\ tenants[i].tenantEmail # ""
     /\ IF alert = "Rent reminders sent"
          THEN tenants[i].paymentStatus \in {"Due", "Overdue"}
          ELSE tenants[i].roomStatus = "Occupied"}

MailsTo(i) == {k \in 1..Len(result.mails) : result.mails[k].room = tenants[i].roomNumber}

\* One failed send does not abort the batch: every eligible
\* row is attempted, and the number shown is the number of sends that succeeded.
BatchGoesOn ==
  BatchDone =>
    /\ \A i \in EligibleRows : MailsTo(i) # {}
    /\ result.shown.sent =
         Cardinality({k \in 1..Len(result.mails) : result.mails[k].delivered})

\* C16: a failed send does not abort the batch, the count shown is the
\* number of successful sends, and the rows whose send failed are reported.
C16_BatchReportsFailures ==
  /\ BatchGoesOn
  /\ BatchDone =>
       \A k \in 1..Len(result.mails) :
         ~result.mails[k].delivered
           => /\ "failed" \in DOMAIN result.shown
              /\ \E f \in 1..Len(result.shown.failed) :
                   result.shown.failed[f] = result.mails[k].to

\* The amount to bill for a row: the negotiated price when the cell holds
\* one, the rental price when the cell is empty.
Billed(row) ==
  IF row.negotiatedPrice # NoPrice THEN row.negotiatedPrice ELSE row.rentalPrice

\* C17: the rent in every reminder and invoice, and the amount that
\* markPaymentReceived appends to the ledger, is the negotiated price of the
\* row whenever it has one, and the rental price only when it has none.
C17_NegotiatedPriceBilled ==
  /\ BatchDone =>
       \A k \in 1..Len(result.mails) : \A i \in 1..Len(tenants) :
         tenants[i].roomNumber = result.mails[k].room
           => result.mails[k].rent = Billed(tenants[i])
  /\ alert = "Payment Recorded" =>
       budget[Len(budget)].amount = Billed(TenantRow(activeRow))

\* The reminders of the step's run that went to row i.
RemindersTo(i) ==
  {k \in 1..Len(result'.mails) : /\ result'.mails[k].room = tenants[i].roomNumber
                                 /\ result'.mails[k].to = tenants[i].tenantEmail
                                 /\ result'.mails[k].kind = "rentReminder"}

\* C22: sendRentReminders attempts one reminder for each row that is Due or
\* Overdue and has an address, none for any other row, sends nothing else,
\* and writes to no sheet.
C22_OneReminderPerDueRow ==
  [][alert' = "Rent reminders sent" =>
       /\ UNCHANGED <<tenants, budget, guestRooms, bookings, pricingRules>>
       /\ \A i \in 1..Len(tenants) :
            Cardinality(RemindersTo(i)) =
              IF tenants[i].paymentStatus \in {"Due", "Overdue"} /\ tenants[i].tenantEmail # ""
                THEN 1 ELSE 0
       /\ Len(result'.mails) =
            Cardinality({i \in 1..Len(tenants) :
                           /\ tenants[i].paymentStatus \in {"Due", "Overdue"}
                           /\ tenants[i].tenantEmail # ""})]_vars

\* Reminders went out: one to a Due or Overdue row, none to a row with an
\* address whose status is Paid or empty.
C22_Witness ==
  /\ alert = "Rent reminders sent"
  /\ \E i, j \in 1..Len(tenants) :
       /\ tenants[i].paymentStatus \in {"Due", "Overdue"}
       /\ Cardinality(MailsTo(i)) = 1
       /\ tenants[j].paymentStatus \in {"", "Paid"}
       /\ tenants[j].tenantEmail # ""
       /\ MailsTo(j) = {}

\* C28 (on SpecPay): when checkAllPaymentStatus runs right after
\* markPaymentReceived, the row that was marked keeps its payment status and
\* its last-payment date.
C28_MarkedRowIsFixedPoint ==
  [][alert = "Payment Recorded" /\ alert' = "Payment Status Updated" =>
       /\ tenants'[activeRow - 1].paymentStatus = tenants[activeRow - 1].paymentStatus
       /\ tenants'[activeRow - 1].lastPayment = tenants[activeRow - 1].lastPayment]_vars

\* ------------------------------------------------ handlers running at once
\* Two operators, or an operator and a trigger, run handlers at the same
\* time: no handler takes a lock.  A handler that reads a sheet and writes it
\* later is two steps, with its snapshot in flight between them.
MaxInFlight == 2        \* handler runs between their read and their write

InFlightOf(handler) == {k \in 1..Len(inFlight) : inFlight[k].handler = handler}

Landed(k) == SubSeq(inFlight, 1, k - 1) \o SubSeq(inFlight, k + 1, Len(inFlight))

\* checkAllPaymentStatus up to dataRange.getValues().
checkAllPaymentStatusRead ==
  /\ Len(tenants) > 0
  /\ InFlightOf("checkAllPaymentStatus") = {}
  /\ inFlight' = Append(inFlight,
                   [handler |-> "checkAllPaymentStatus", row |-> 0, data |-> tenants])
  /\ UNCHANGED <<guestRooms, bookings, budget, tenants, pricingRules, triggers, now, activeSheet,
                 activeRow, alert, result>>

\* checkAllPaymentStatus from the forEach on: dataRange.setValues(data)
\* writes every cell of every row of the snapshot.
checkAllPaymentStatusWrite ==
  \E k \in InFlightOf("checkAllPaymentStatus") :
    /\ tenants' = [i \in 1..Len(inFlight[k].data) |->
                     [inFlight[k].data[i] EXCEPT
                        !.paymentStatus = PaymentStatusFor(inFlight[k].data[i], now)]]
    /\ inFlight' = Landed(k)
    /\ alert' = "Payment Status Updated"
    /\ result' = NoResult
    /\ UNCHANGED <<guestRooms, bookings, budget, pricingRules, triggers, now, activeSheet, activeRow>>

\* Occupied rooms in a March, paid up or not.
InitLostUpdate ==
  /\ guestRooms = <<>>
  /\ bookings = <<>>
  /\ budget = <<>>
  /\ pricingRules = <<>>
  /\ inFlight = <<>>
  /\ triggers = <<>>
  /\ now = FirstOfMonth(2) + 1
  /\ tenants \in {ts \in [1..MaxTenants -> UNION {TenantRows(i, 2) : i \in 1..MaxTenants}] :
                    \A i \in 1..MaxTenants :
                      ts[i].roomNumber = TenantRooms[i] /\ ts[i].roomStatus = "Occupied"}
  /\ activeSheet = TENANTS_SHEET_NAME
  /\ activeRow = 1
  /\ alert = NoAlert
  /\ result = NoResult

NextLostUpdate ==
  \/ checkAllPaymentStatusRead
  \/ checkAllPaymentStatusWrite
  \/ \E sel \in PaySelections : markPaymentReceived(sel[1], sel[2])

SpecLostUpdate == InitLostUpdate /\ [][NextLostUpdate]_vars

\* ------------------------------------------------ claims on SpecLostUpdate
\* C18: once every handler has finished, a row for which markPaymentReceived
\* recorded a payment holds the date of that payment and the status Paid,
\* also when checkAllPaymentStatus was between its read and its write.
C18_PaymentNotLost ==
  inFlight = <<>> =>
    \A e \in 1..Len(budget) : \A i \in 1..Len(tenants) :
      tenants[i].roomNumber = budget[e].room
        => tenants[i].lastPayment = budget[e].date /\ tenants[i].paymentStatus = "Paid"

\* ------------------------------------------------ two check-outs at once
\* processCheckOut up to the answer to 'Outstanding Balance': the status and
\* the amounts have been read, nothing has been written.
processCheckOutRead(sheet, row, proceed) ==
  /\ Len(inFlight) < MaxInFlight
  /\ Selected(sheet, row)
  /\ IF sheet # GUEST_BOOKINGS_SHEET_NAME
         THEN Quiet("Please select a booking in the Guest Bookings sheet.")
       ELSE IF row <= 1
         THEN Quiet("Please select a booking row.")
       ELSE IF ~CheckOutAllowed(BookingRow(row).status)
         THEN Quiet("Only checked-in bookings can be checked out.")
       ELSE IF BookingRow(row).amountPaid < BookingRow(row).totalAmount /\ ~proceed
         THEN Quiet("Outstanding Balance")
       ELSE
         /\ inFlight' = Append(inFlight,
                          [handler |-> "processCheckOut", row |-> row, data |-> <<BookingRow(row)>>])
         /\ UNCHANGED <<guestRooms, bookings, budget, tenants, pricingRules, triggers, now, alert, result>>

\* processCheckOut from 'Update booking status' on: the status is written
\* without being read again; the room number and the guest name are read
\* from the sheet, the amount paid is the one read earlier.
processCheckOutWrite ==
  \E k \in InFlightOf("processCheckOut") :
    LET row == inFlight[k].row
        amountPaid == inFlight[k].data[1].amountPaid IN
      /\ bookings' = [bookings EXCEPT ![row - 1].status = BOOKING_STATUS.CHECKED_OUT]
      /\ guestRooms' = updateGuestRoomStatus(guestRooms, BookingRow(row).roomNumber, "Available",
                                             "", NoDate, NoDate)
      /\ budget' = logGuestRoomRevenue(budget, BookingRow(row).guestName,
                                       BookingRow(row).roomNumber, amountPaid)
      /\ inFlight' = Landed(k)
      /\ alert' = "Check-Out Complete"
      /\ result' = NoResult
      /\ UNCHANGED <<tenants, pricingRules, triggers, now, activeSheet, activeRow>>

\* dailyGuestRoomCheck up to getValues(): the rows are in data.
dailyGuestRoomCheckRead ==
  /\ Len(inFlight) < MaxInFlight
  /\ Len(bookings) > 0
  /\ inFlight' = Append(inFlight,
                   [handler |-> "dailyGuestRoomCheck", row |-> 0, data |-> bookings])
  /\ UNCHANGED <<guestRooms, bookings, budget, tenants, pricingRules, triggers, now, activeSheet,
                 activeRow, alert, result>>

\* dailyGuestRoomCheck from data.forEach on: each departure of the snapshot
\* is checked out on the sheets as they are now.
dailyGuestRoomCheckWrite ==
  \E k \in InFlightOf("dailyGuestRoomCheck") :
    LET st == ForEachBooking(inFlight[k].data, 1,
                             [b |-> bookings, r |-> guestRooms, l |-> budget]) IN
      /\ bookings' = st.b
      /\ guestRooms' = st.r
      /\ budget' = st.l
      /\ inFlight' = Landed(k)
      /\ alert' = NoAlert
      /\ result' = NoResult
      /\ UNCHANGED <<tenants, pricingRules, triggers, now, activeSheet, activeRow>>

\* Guests in house or expected, leaving today or tomorrow; row i holds room i.
HouseRooms == <<"G1", "G2", "G3">>

HouseBookings(i) ==
  {BookingOf(i, HouseRooms[i], stay, paid, status) :
     stay \in {<<0, TicksPerDay>>, <<0, 2 * TicksPerDay>>}, paid \in {0, TotalAmount},
     status \in {BOOKING_STATUS.CONFIRMED, BOOKING_STATUS.CHECKED_IN}}

HouseRoom(booking) ==
  IF booking.status = BOOKING_STATUS.CHECKED_IN
    THEN [number |-> booking.roomNumber, status |-> "Occupied",
          currentGuest |-> booking.guestName, checkIn |-> booking.checkIn,
          checkOut |-> booking.checkOut]
    ELSE RoomOf(booking.roomNumber, "Available")

InitDoubleCheckOut ==
  /\ bookings \in {bs \in [1..MaxBookings -> UNION {HouseBookings(i) : i \in 1..MaxBookings}] :
                     \A i \in 1..MaxBookings : bs[i].id = BookingIds[i]}
  /\ guestRooms = [i \in 1..MaxBookings |-> HouseRoom(bookings[i])]
  /\ budget = <<>>
  /\ tenants = <<>>
  /\ pricingRules = <<>>
  /\ inFlight = <<>>
  /\ triggers = <<>>
  /\ now \in {TicksPerDay, TicksPerDay + 1}
  /\ activeSheet = GUEST_BOOKINGS_SHEET_NAME
  /\ activeRow = 1
  /\ alert = NoAlert
  /\ result = NoResult

NextDoubleCheckOut ==
  \/ \E sel \in Selections, proceed \in BOOLEAN : processCheckOutRead(sel[1], sel[2], proceed)
  \/ processCheckOutWrite
  \/ dailyGuestRoomCheckRead
  \/ dailyGuestRoomCheckWrite

SpecDoubleCheckOut == InitDoubleCheckOut /\ [][NextDoubleCheckOut]_vars

\* -------------------------------------------- claims on SpecDoubleCheckOut
\* The revenue entries of the ledger that belong to a booking.
RevenueEntries(booking) ==
  {e \in 1..Len(budget) : /\ budget[e].type = "Guest Room Income"
                          /\ budget[e].guest = booking.guestName
                          /\ budget[e].room = booking.roomNumber}

\* C19: however check-outs of one booking overlap (processCheckOut with
\* processCheckOut, or with dailyGuestRoomCheck), the ledger holds at most
\* one revenue entry for the booking.
C19_CheckedOutOnce ==
  \A i \in 1..Len(bookings) : Cardinality(RevenueEntries(bookings[i])) <= 1

\* ------------------------------------- bookings for a room that is not listed
UnlistedRoom == "G9"    \* a room number typed into a booking, on no Guest Rooms row

\* Bookings as typed by an operator: the room number is free text.
TypedBookings(i) ==
  {BookingOf(i, room, stay, paid, status) :
     room \in {"G1", UnlistedRoom},
     stay \in {<<0, TicksPerDay>>, <<TicksPerDay, 2 * TicksPerDay>>},
     paid \in {0, TotalAmount},
     status \in {BOOKING_STATUS.PENDING, BOOKING_STATUS.CONFIRMED}}

InitUnlisted ==
  /\ guestRooms = <<RoomOf("G1", "Available"), RoomOf("G2", "Available")>>
  /\ bookings \in {bs \in [1..MaxBookings -> UNION {TypedBookings(i) : i \in 1..MaxBookings}] :
                     /\ \A i \in 1..MaxBookings : bs[i].id = BookingIds[i]
                     /\ NoDoubleBooking(bs)}
  /\ budget = <<>>
  /\ tenants = <<>>
  /\ pricingRules = <<>>
  /\ inFlight = <<>>
  /\ triggers = <<>>
  /\ now = 0
  /\ activeSheet = GUEST_BOOKINGS_SHEET_NAME
  /\ activeRow = 1
  /\ alert = NoAlert
  /\ result = NoResult

NextUnlisted ==
  \/ \E sel \in Selections : processCheckIn(sel[1], sel[2])
  \/ \E sel \in Selections, proceed \in BOOLEAN : processCheckOut(sel[1], sel[2], proceed)
  \/ Tick

SpecUnlisted == InitUnlisted /\ [][NextUnlisted]_vars

\* --------------------------------------------------- claims on SpecUnlisted
\* The bookings whose room number matches no row of the Guest Rooms sheet.
Unmatched == {i \in 1..Len(bookings) : FirstMatch(guestRooms, bookings[i].roomNumber, 1) = 0}

\* C20: a check-in or check-out of a booking whose room number matches no
\* Guest Rooms row leaves the booking's status as it was and does not report
\* completion.
C20_UnknownRoomRejected ==
  [][\A i \in Unmatched :
       /\ bookings'[i].status = bookings[i].status
       /\ (activeRow' = i + 1 /\ activeSheet' = GUEST_BOOKINGS_SHEET_NAME)
            => alert' \notin {"Check-In Complete", "Check-Out Complete"}]_vars

\* ------------------------------------------------------ form submissions
\* The questions of the form that createTenantApplicationForm builds
\* (section headers are not questions), and the response timestamp.
ApplicationFormTitles ==
  {"Timestamp", "Full Name", "Email Address", "Phone Number", "Current Address",
   "Desired Move-in Date", "Preferred Room", "Expected Length of Stay",
   "Current Employment Status", "Employer/School Name", "Monthly Income (Gross)",
   "Reference 1", "Reference 2", "Emergency Contact", "Vehicle Information",
   "Tell Us About Yourself", "Special Needs or Requests", "Proof of Income",
   "Application Agreement"}

\* The questions of the form that createMoveOutRequestForm builds.
MoveOutFormTitles ==
  {"Timestamp", "Your Full Name", "Email Address", "Phone Number", "Room Number",
   "Planned Move-Out Date", "Forwarding Address", "Primary Reason for Moving",
   "Additional Details", "Availability for Move-Out Inspection", "Key Return Method",
   "Overall Satisfaction", "What aspects of living here did you appreciate?",
   "What could we improve for future tenants?",
   "Would you recommend our parsonage to others?", "Move-Out Acknowledgments",
   "Any other comments or special circumstances?"}

\* The fields of the forms an operator builds by hand from the instructions
\* of createApplicationForm and createMoveOutForm.
ManualApplicationTitles ==
  {"Timestamp", "Name", "Email", "Phone Number", "Desired Move-in Date", "Preferred Room",
   "Employment Status", "References", "Additional Information", "Proof of Income"}

ManualMoveOutTitles ==
  {"Timestamp", "Tenant Name", "Tenant Email", "Room Number", "Planned Move-Out Date",
   "Forwarding Address", "Reason for Moving", "Feedback/Comments"}

SubmitterEmails == {"ana@example.org", "ben@example.org"}
SubmitterNames == {"Ana"}
MoveOutDates == {"2024-03-31"}

\* e.namedValues of a submission: every question title with the list of its
\* answers.  Required, validated questions hold what the submitter entered.
NamedValues(titles, nameKey, emailKey, name, email, room, date) ==
  [title \in titles |->
     IF title = nameKey THEN <<name>>
     ELSE IF title = emailKey THEN <<email>>
     ELSE IF title = "Room Number" THEN <<room>>
     ELSE IF title = "Planned Move-Out Date" THEN <<date>>
     ELSE <<"answer">>]

\* A trigger event without answers.
NoAnswers == [title \in {} |-> <<"">>]

ApplicationSubmissions ==
  {NamedValues(ApplicationFormTitles, "Full Name", "Email Address", name, email, "", "") :
     name \in SubmitterNames, email \in SubmitterEmails}

ManualApplicationSubmissions ==
  {NamedValues(ManualApplicationTitles, "Name", "Email", name, email, "", "") :
     name \in SubmitterNames, email \in SubmitterEmails}

MoveOutSubmissions ==
  {NamedValues(MoveOutFormTitles, "Your Full Name", "Email Address", name, email, room, date) :
     name \in SubmitterNames, email \in SubmitterEmails,
     room \in {"101", "109"}, date \in MoveOutDates}

ManualMoveOutSubmissions ==
  {NamedValues(ManualMoveOutTitles, "Tenant Name", "Tenant Email", name, email, room, date) :
     name \in SubmitterNames, email \in SubmitterEmails,
     room \in {"101", "109"}, date \in MoveOutDates}

\* e.namedValues[key] ? e.namedValues[key][0] : fallback
NamedValue(namedValues, key, fallback) ==
  IF key \in DOMAIN namedValues THEN namedValues[key][1] ELSE fallback

\* The handler's record of a run: the event it got and the mails it handed
\* to MailApp.sendEmail.
Handled(handler, namedValues, mails) ==
  [handler |-> handler, namedValues |-> namedValues, mails |-> mails]

\* onTenantApplicationSubmit; delivered is whether MailApp.sendEmail returned.
onTenantApplicationSubmit(namedValues, delivered) ==
  LET email == NamedValue(namedValues, "Email", "")
      name == NamedValue(namedValues, "Name", "Applicant") IN
    /\ result' = Handled("onTenantApplicationSubmit", namedValues,
                         IF email # ""
                           THEN <<[to |-> email, template |-> "applicationReceived",
                                   name |-> name, delivered |-> delivered]>>
                           ELSE <<>>)
    /\ alert' = NoAlert
    /\ UNCHANGED <<guestRooms, bookings, budget, tenants, pricingRules, inFlight, triggers, now,
                   activeSheet, activeRow>>

RECURSIVE FirstTenantRow(_, _, _)
FirstTenantRow(data, roomNumber, i) ==
  IF i > Len(data) THEN 0
  ELSE IF data[i].roomNumber = roomNumber THEN i
  ELSE FirstTenantRow(data, roomNumber, i + 1)

\* updateTenantMoveOut: the first row of the room gets the planned date and a note.
updateTenantMoveOut(rows, roomNumber, moveOutDate) ==
  LET i == FirstTenantRow(rows, roomNumber, 1) IN
    IF i = 0 THEN rows
    ELSE [rows EXCEPT ![i] = [@ EXCEPT !.moveOutPlanned = moveOutDate,
                                       !.notes = "Move-out requested"]]

\* onMoveOutRequestSubmit: the Tenants sheet is updated after the mail went out.
onMoveOutRequestSubmit(namedValues, delivered) ==
  LET email == NamedValue(namedValues, "Tenant Email", "")
      name == NamedValue(namedValues, "Tenant Name", "Tenant")
      moveOutDate == NamedValue(namedValues, "Planned Move-Out Date", "")
      room == NamedValue(namedValues, "Room Number", "") IN
    /\ result' = Handled("onMoveOutRequestSubmit", namedValues,
                         IF email # ""
                           THEN <<[to |-> email, template |-> "moveOutInstructions",
                                   name |-> name, delivered |-> delivered]>>
                           ELSE <<>>)
    /\ tenants' = IF email # "" /\ delivered
                    THEN updateTenantMoveOut(tenants, room, moveOutDate)
                    ELSE tenants
    /\ alert' = NoAlert
    /\ UNCHANGED <<guestRooms, bookings, budget, pricingRules, inFlight, triggers, now,
                   activeSheet, activeRow>>

\* A Tenants row with its Move-Out Date (Planned) and Notes cells.
WithMoveOut(row) ==
  [roomNumber |-> row.roomNumber, rentalPrice |-> row.rentalPrice,
   negotiatedPrice |-> row.negotiatedPrice, tenantName |-> row.tenantName,
   tenantEmail |-> row.tenantEmail, roomStatus |-> row.roomStatus,
   lastPayment |-> row.lastPayment, paymentStatus |-> row.paymentStatus,
   moveOutPlanned |-> "", notes |-> ""]

InitForms ==
  /\ guestRooms = <<>>
  /\ bookings = <<>>
  /\ budget = <<>>
  /\ pricingRules = <<>>
  /\ inFlight = <<>>
  /\ triggers = <<>>
  /\ now = FirstOfMonth(2) + 1
  /\ tenants \in {[i \in 1..MaxTenants |-> WithMoveOut(ts[i])] :
                    ts \in {rs \in [1..MaxTenants -> UNION {TenantRows(i, 2) : i \in 1..MaxTenants}] :
                              \A i \in 1..MaxTenants :
                                /\ rs[i].roomNumber = TenantRooms[i]
                                /\ rs[i].lastPayment = NoDate
                                /\ rs[i].paymentStatus = ""}}
  /\ activeSheet = TENANTS_SHEET_NAME
  /\ activeRow = 1
  /\ alert = NoAlert
  /\ result = NoResult

NextForms ==
  \/ \E e \in ApplicationSubmissions \cup ManualApplicationSubmissions \cup {NoAnswers},
        delivered \in BOOLEAN : onTenantApplicationSubmit(e, delivered)
  \/ \E e \in MoveOutSubmissions \cup ManualMoveOutSubmissions \cup {NoAnswers},
        delivered \in BOOLEAN : onMoveOutRequestSubmit(e, delivered)

SpecForms == InitForms /\ [][NextForms]_vars

\* ------------------------------------------------------ claims on SpecForms
\* A handler has run on a submission of the form built by the script.
HandledBuiltForm ==
  /\ "handler" \in DOMAIN result
  /\ \/ result.handler = "onTenantApplicationSubmit" /\ result.namedValues \in ApplicationSubmissions
     \/ result.handler = "onMoveOutRequestSubmit" /\ result.namedValues \in MoveOutSubmissions

\* C21: a submission of a form built by createTenantApplicationForm or
\* createMoveOutRequestForm that reaches its handler makes the handler send
\* one mail to the address entered under 'Email Address'.
C21_SubmitterIsMailed ==
  HandledBuiltForm =>
    \E k \in 1..Len(result.mails) : result.mails[k].to = result.namedValues["Email Address"][1]

\* -------------------------------------------------- late payment alerts
MANAGER_EMAIL == "manager@example.org"

\* sendLatePaymentAlerts: the rows pushed onto overdueList.
IsOverdue(row) == row.paymentStatus = "Overdue"

RECURSIVE OverdueList(_, _)
\* data.forEach: one line per listed row, in sheet order.
OverdueList(data, i) ==
  IF i > Len(data) THEN <<>>
  ELSE IF IsOverdue(data[i])
    THEN <<[tenant |-> data[i].tenantName, room |-> data[i].roomNumber,
            email |-> data[i].tenantEmail, lastPayment |-> data[i].lastPayment]>>
         \o OverdueList(data, i + 1)
  ELSE OverdueList(data, i + 1)

\* lastPayment ? Utilities.formatDate(lastPayment, ...) : 'Never' throws
\* when the cell of a listed row holds text: formatDate takes a Date.
FormatThrows(data) ==
  \E i \in 1..Len(data) : IsOverdue(data[i]) /\ data[i].lastPayment = TextCell

\* What a run leaves behind: the mails handed to MailApp.sendEmail.
AlertRun(mails) == [kind |-> "overdueAlert", mails |-> mails]

\* sendLatePaymentAlerts; delivered is whether MailApp.sendEmail returned.
\* An exception ends the run before the dialog.
sendLatePaymentAlerts(delivered) ==
  IF Len(tenants) = 0
    THEN UNCHANGED vars
  ELSE IF FormatThrows(tenants)
    THEN /\ result' = AlertRun(<<>>)
         /\ alert' = "Exception"
         /\ UNCHANGED <<guestRooms, bookings, budget, tenants, pricingRules, inFlight, triggers, now,
                        activeSheet, activeRow>>
  ELSE IF OverdueList(tenants, 1) = <<>>
    THEN /\ Quiet("No overdue tenants found.")
         /\ UNCHANGED <<triggers, activeSheet, activeRow>>
  ELSE /\ result' = AlertRun(<<[to |-> MANAGER_EMAIL,
                                overdueList |-> OverdueList(tenants, 1),
                                count |-> Len(OverdueList(tenants, 1)),
                                delivered |-> delivered]>>)
       /\ alert' = IF delivered THEN "Late payment alert sent to manager." ELSE "Exception"
       /\ UNCHANGED <<guestRooms, bookings, budget, tenants, pricingRules, inFlight, triggers, now,
                      activeSheet, activeRow>>

\* Rows of the Tenants sheet in a March: the last-payment cell is empty,
\* holds text, or holds a date of this month, last month or earlier.
AlertRows(i) ==
  {[roomNumber |-> TenantRooms[i], rentalPrice |-> RentalPrice, negotiatedPrice |-> NoPrice,
    tenantName |-> TenantNames[i], tenantEmail |-> "tenant@example.org",
    roomStatus |-> roomStatus, lastPayment |-> lastPayment, paymentStatus |-> ""] :
     roomStatus \in {"Occupied", "Vacant"},
     lastPayment \in {NoDate, TextCell, FirstOfMonth(0), FirstOfMonth(1), FirstOfMonth(2)}}

InitAlerts ==
  /\ guestRooms = <<>>
  /\ bookings = <<>>
  /\ budget = <<>>
  /\ pricingRules = <<>>
  /\ inFlight = <<>>
  /\ triggers = <<>>
  /\ now = FirstOfMonth(2) + 1
  /\ tenants \in {ts \in [1..MaxTenants -> UNION {AlertRows(i) : i \in 1..MaxTenants}] :
                    \A i \in 1..MaxTenants : ts[i].roomNumber = TenantRooms[i]}
  /\ activeSheet = TENANTS_SHEET_NAME
  /\ activeRow = 1
  /\ alert = NoAlert
  /\ result = NoResult

NextAlerts ==
  \/ checkAllPaymentStatus
  \/ \E delivered \in BOOLEAN : sendLatePaymentAlerts(delivered)
  \/ \E sel \in PaySelections : markPaymentReceived(sel[1], sel[2])

SpecAlerts == InitAlerts /\ [][NextAlerts]_vars

\* ----------------------------------------------------- claims on SpecAlerts
\* sendLatePaymentAlerts was the last handler to run.
LateAlertDone ==
  \/ alert = "No overdue tenants found."
  \/ "kind" \in DOMAIN result /\ result.kind = "overdueAlert"

\* The mails of that run.
LateAlertMails == IF alert = "No overdue tenants found." THEN <<>> ELSE result.mails

OverdueRows == {i \in 1..Len(tenants) : tenants[i].paymentStatus = "Overdue"}

\* C23: sendLatePaymentAlerts sends the manager one mail iff some row is
\* Overdue; the mail lists the Overdue rows and no other row, and its count
\* is the number of rows listed.
C23_ManagerAlertedIffOverdue ==
  LateAlertDone =>
    /\ Len(LateAlertMails) = (IF OverdueRows # {} THEN 1 ELSE 0)
    /\ \A k \in 1..Len(LateAlertMails) :
         /\ LateAlertMails[k].to = MANAGER_EMAIL
         /\ {LateAlertMails[k].overdueList[n].room : n \in 1..Len(LateAlertMails[k].overdueList)}
              = {tenants[i].roomNumber : i \in OverdueRows}
         /\ LateAlertMails[k].count = Len(LateAlertMails[k].overdueList)
         /\ LateAlertMails[k].count = Cardinality(OverdueRows)

\* --------------------------------------------------------------- triggers
MaxTriggers == 6        \* installed triggers of the project

\* ScriptApp.newTrigger(handler)...create()
Trigger(handler, eventType) == [handler |-> handler, eventType |-> eventType]

\* trigger.getEventType() === ScriptApp.EventType.ON_FORM_SUBMIT
IsFormSubmit(trigger) == trigger.eventType = "ON_FORM_SUBMIT"

IsClock(trigger) == ~IsFormSubmit(trigger)

\* The triggers left after deleteTrigger on every form-submit trigger.
WithoutFormSubmit(installed) == SelectSeq(installed, IsClock)

\* setupTriggers: every trigger is deleted, three are created.
setupTriggers ==
  /\ triggers' = <<Trigger("checkAllPaymentStatus", "CLOCK"),
                   Trigger("sendRentReminders", "CLOCK"),
                   Trigger("sendLatePaymentAlerts", "CLOCK")>>
  /\ alert' = "Triggers Set Up"
  /\ result' = NoResult
  /\ UNCHANGED <<guestRooms, bookings, budget, tenants, pricingRules, inFlight, now,
                 activeSheet, activeRow>>

\* setupAllTriggers: every trigger is deleted, four are created.
setupAllTriggers ==
  /\ triggers' = <<Trigger("checkAllPaymentStatus", "CLOCK"),
                   Trigger("sendRentReminders", "CLOCK"),
                   Trigger("sendLatePaymentAlerts", "CLOCK"),
                   Trigger("dailyGuestRoomCheck", "CLOCK")>>
  /\ alert' = "Triggers Set Up"
  /\ result' = NoResult
  /\ UNCHANGED <<guestRooms, bookings, budget, tenants, pricingRules, inFlight, now,
                 activeSheet, activeRow>>

\* setupFormSubmitTriggers: one trigger is created, none is looked at.
setupFormSubmitTriggers(installed) ==
  Append(installed, Trigger("onTenantApplicationSubmit", "ON_FORM_SUBMIT"))

\* setupEnhancedFormTriggers: the form-submit triggers are deleted, one is created.
setupEnhancedFormTriggers(installed) ==
  Append(WithoutFormSubmit(installed), Trigger("onEnhancedFormSubmitRouter", "ON_FORM_SUBMIT"))

\* autoCreateAllForms; created is whether the forms were built and their
\* response sheets renamed without an exception (setName throws when another
\* sheet holds the name).  The triggers are set up only after that.
autoCreateAllForms(created) ==
  /\ Len(triggers) < MaxTriggers
  /\ triggers' = IF created THEN setupFormSubmitTriggers(triggers) ELSE triggers
  /\ alert' = IF created THEN "Forms Created" ELSE "Error"
  /\ result' = NoResult
  /\ UNCHANGED <<guestRooms, bookings, budget, tenants, pricingRules, inFlight, now,
                 activeSheet, activeRow>>

autoCreateAllFormsEnhanced(created) ==
  /\ Len(triggers) < MaxTriggers
  /\ triggers' = IF created THEN setupEnhancedFormTriggers(triggers) ELSE triggers
  /\ alert' = IF created THEN "Forms Created" ELSE "Error"
  /\ result' = NoResult
  /\ UNCHANGED <<guestRooms, bookings, budget, tenants, pricingRules, inFlight, now,
                 activeSheet, activeRow>>

InitTriggers ==
  /\ guestRooms = <<>>
  /\ bookings = <<>>
  /\ budget = <<>>
  /\ tenants = <<>>
  /\ pricingRules = <<>>
  /\ inFlight = <<>>
  /\ triggers = <<>>
  /\ now \in 0..(MaxDay * TicksPerDay)
  /\ activeSheet \in {TENANTS_SHEET_NAME, GUEST_BOOKINGS_SHEET_NAME, GUEST_ROOMS_SHEET_NAME,
                      BUDGET_SHEET_NAME}
  /\ activeRow \in 1..3
  /\ alert = NoAlert
  /\ result = NoResult

NextTriggers ==
  \/ setupTriggers
  \/ setupAllTriggers
  \/ \E created \in BOOLEAN : autoCreateAllForms(created)
  \/ \E created \in BOOLEAN : autoCreateAllFormsEnhanced(created)

SpecTriggers == InitTriggers /\ [][NextTriggers]_vars

\* --------------------------------------------------- claims on SpecTriggers
TriggersOf(handler) == {k \in 1..Len(triggers) : triggers[k].handler = handler}

\* C24: whatever the order in which the trigger set-ups run, no handler has
\* more than one installed trigger.
C24_OneTriggerPerHandler ==
  \A k \in 1..Len(triggers) : Cardinality(TriggersOf(triggers[k].handler)) <= 1

\* ------------------------------------------- rooms against their bookings
\* Check-ins and check-outs alone, by hand and by the daily trigger.
NextRooms ==
  \/ \E sel \in Selections : processCheckIn(sel[1], sel[2])
  \/ \E sel \in Selections, proceed \in BOOLEAN : processCheckOut(sel[1], sel[2], proceed)
  \/ dailyGuestRoomCheck
  \/ Tick

SpecRooms == Init /\ [][NextRooms]_vars

\* ------------------------------------------------------ claims on SpecRooms
\* The bookings of a room that are Checked In.
InHouse(number) ==
  {i \in 1..Len(bookings) : /\ bookings[i].roomNumber = number
                            /\ bookings[i].status = BOOKING_STATUS.CHECKED_IN}

\* C27: a guest room is Occupied iff some booking of it is Checked In, and
\* its Current Guest is then the guest of a Checked In booking of it.
C27_OccupiedIffCheckedIn ==
  \A r \in 1..Len(guestRooms) :
    /\ guestRooms[r].status = "Occupied" <=> InHouse(guestRooms[r].number) # {}
    /\ guestRooms[r].status = "Occupied" =>
         \E i \in InHouse(guestRooms[r].number) : guestRooms[r].currentGuest = bookings[i].guestName

\* ------------------------------------------------ statuses as months pass
\* The instants at which the model looks at a month: its first instant, its
\* middle and its last instant.
MidOfMonth(k) == FirstOfMonth(k) + 14 * TicksPerDay + 1

EndOfMonth(k) == FirstOfMonth(k + 1) - 1

\* The next such instant after t.
NextInstant(t) ==
  LET k == MonthIndex(t) IN
    IF t < MidOfMonth(k) THEN MidOfMonth(k)
    ELSE IF t < EndOfMonth(k) THEN EndOfMonth(k)
    ELSE FirstOfMonth(k + 1)

\* Time passes between two runs of the daily trigger of checkAllPaymentStatus.
Pass ==
  /\ MonthIndex(NextInstant(now)) < MaxMonth
  /\ now' = NextInstant(now)
  /\ alert' = NoAlert
  /\ result' = NoResult
  /\ UNCHANGED <<guestRooms, bookings, budget, tenants, pricingRules, inFlight, triggers,
                 activeSheet, activeRow>>

\* The month the calendar starts in: a November, so that the year turns.
StartMonth == 10

\* Occupied rooms on 1 November: never paid, or paid in October or at the
\* first or last instant of November; no status has been computed yet.
CalendarRows(i) ==
  {[roomNumber |-> TenantRooms[i], rentalPrice |-> RentalPrice, negotiatedPrice |-> NoPrice,
    tenantName |-> TenantNames[i], tenantEmail |-> "tenant@example.org",
    roomStatus |-> "Occupied", lastPayment |-> lastPayment, paymentStatus |-> ""] :
     lastPayment \in {NoDate, MidOfMonth(StartMonth - 1), FirstOfMonth(StartMonth),
                      EndOfMonth(StartMonth)}}

InitCalendar ==
  /\ guestRooms = <<>>
  /\ bookings = <<>>
  /\ budget = <<>>
  /\ pricingRules = <<>>
  /\ inFlight = <<>>
  /\ triggers = <<>>
  /\ now = FirstOfMonth(StartMonth)
  /\ tenants \in {ts \in [1..MaxTenants -> UNION {CalendarRows(i) : i \in 1..MaxTenants}] :
                    \A i \in 1..MaxTenants : ts[i].roomNumber = TenantRooms[i]}
  /\ activeSheet = TENANTS_SHEET_NAME
  /\ activeRow = 1
  /\ alert = NoAlert
  /\ result = NoResult

NextCalendar ==
  \/ checkAllPaymentStatus
  \/ \E sel \in PaySelections : markPaymentReceived(sel[1], sel[2])
  \/ Pass

SpecCalendar == InitCalendar /\ [][NextCalendar]_vars

\* --------------------------------------------------- claims on SpecCalendar
\* Paid, Due and Overdue in the order in which a status gets worse.
Rank(paymentStatus) ==
  CASE paymentStatus = "Paid" -> 1
    [] paymentStatus = "Due" -> 2
    [] paymentStatus = "Overdue" -> 3
    [] OTHER -> 0

\* The status of a payment made in month M when today is in month T.
StatusByMonth(M, T) ==
  IF T <= M THEN "Paid" ELSE IF T = M + 1 THEN "Due" ELSE "Overdue"

\* C29: each run of checkAllPaymentStatus gives an Occupied row with a last
\* payment in month M the status Paid throughout M, Due throughout M + 1 and
\* Overdue from M + 2 on, and never a better status than the row had, the
\* last-payment date being the same.
C29_StatusOnlyDegrades ==
  [][alert' = "Payment Status Updated" =>
       \A i \in 1..Len(tenants) :
         tenants[i].roomStatus = "Occupied" =>
           /\ IsDate(tenants[i].lastPayment) =>
                tenants'[i].paymentStatus =
                  StatusByMonth(MonthIndex(tenants[i].lastPayment), MonthIndex(now))
           /\ tenants'[i].lastPayment = tenants[i].lastPayment
           /\ Rank(tenants'[i].paymentStatus) >= Rank(tenants[i].paymentStatus)]_vars

\* A check two months or more after the payment found the row Overdue while
\* the other row, paid later, is not.
C29_Witness ==
  /\ alert = "Payment Status Updated"
  /\ \E i, j \in 1..Len(tenants) :
       /\ IsDate(tenants[i].lastPayment)
       /\ MonthIndex(now) >= MonthIndex(tenants[i].lastPayment) + 2
       /\ tenants[i].paymentStatus = "Overdue"
       /\ IsDate(tenants[j].lastPayment)
       /\ MonthIndex(now) = MonthIndex(tenants[j].lastPayment) + 1
       /\ tenants[j].paymentStatus = "Due"

\* ------------------------------------------------- the daily check, kept up
\* The time-based trigger of setupAllTriggers keeps running dailyGuestRoomCheck,
\* and days keep passing; the operator's check-ins and check-outs may or may
\* not happen.
SpecDaily ==
  /\ Init
  /\ [][NextRooms]_vars
  /\ WF_vars(dailyGuestRoomCheck)
  /\ WF_vars(Tick)

\* ------------------------------------------------------ claims on SpecDaily
\* Booking i is Checked In and its check-out day has come.
Overstaying(i) ==
  /\ bookings[i].status = BOOKING_STATUS.CHECKED_IN
  /\ Midnight(bookings[i].checkOut) <= Midnight(now)

\* C30: a Checked In booking whose check-out day has come is eventually
\* Checked Out, the daily check being kept up.
C30_EventuallyCheckedOut ==
  \A i \in 1..MaxBookings :
    Overstaying(i) ~> bookings[i].status = BOOKING_STATUS.CHECKED_OUT

====
